---- MODULE Spec2Model ----
(***************************************************************************)
(* Model of the zatAcademy backend's token lifecycle (tokenService.js,     *)
(* middleware/auth.js, the token cleanup job) and of the progress record   *)
(* (the Progress model in models/SessionMaterial.js, ProgressService.js).  *)
(*                                                                         *)
(* Persistence goes through Mongoose documents.  The model follows what    *)
(* document.save() does for the User schema (versionKey __v is left        *)
(* enabled by the schema): save() sends only the modified paths;           *)
(*   - an array push is sent as $push together with $inc __v, with no      *)
(*     condition on __v;                                                   *)
(*   - an array changed by sort/shift/splice is sent as $set of the whole  *)
(*     array, conditioned on the __v that was loaded, with $inc __v;       *)
(*   - a changed field of an array element is sent as a positional $set    *)
(*     ("refreshTokens.<i>.<field>"), conditioned on the __v that was      *)
(*     loaded, without changing __v;                                       *)
(*   - a conditioned update that matches no document makes save() throw    *)
(*     VersionError; a save with no modified path writes nothing.          *)
(* Model.updateMany / deleteMany act on the store in one step and never    *)
(* touch __v.  Every await on the store is one step of a request handler;  *)
(* the synchronous code that follows a read belongs to the step of the     *)
(* read.                                                                   *)
(***************************************************************************)
EXTENDS Integers, Sequences, FiniteSets, TLC

\* ------------------------------------------------------------- bounds ---
Devices == {"d1", "d2"}
Procs == {1, 2}
MaxTime == 2
MaxCalls == 3
\* calls of the specification that runs one handler at a time
MaxSeqCalls == 4
\* MAX_REFRESH_TOKENS_PER_USER as configured for the model
maxTokens == 2
\* JWT_REFRESH_EXPIRE in clock ticks
RefreshTTL == 1
\* JWT_ACCESS_EXPIRE (default '15m') in clock ticks; one tick is 900 s
AccessTTL == 1
\* the TTL index on TokenBlacklist.createdAt (86400 s) in clock ticks
BlacklistDocTTL == 96

Missing == 0 - 1
NoTok == <<"none", Missing>>
\* a field left undefined, and what the document store keeps for it
Undefined == 0 - 2
NullValue == 0 - 3

VARIABLES
  now,        \* the wall clock (Date.now()), in ticks
  conc,       \* how many request handlers the server has in flight at most
  db,         \* the stored User document: [rts: refreshTokens, v: __v]
  calls,      \* the request handlers in flight, one per slot
  started,    \* number of handler calls started so far
  minted,     \* refresh tokens signed so far
  rotatedOnce, \* tokens for which a rotate call that issued a replacement has finished
  blacklist,  \* the TokenBlacklist collection
  accessMinted, \* access tokens signed so far
  req,        \* the request passing through an authentication middleware
  blDone,     \* tokens for which blacklistAccessToken(token, 'logout') has returned true
  blResult,   \* outcome of the latest blacklistAccessToken call
  day,        \* the calendar day (Date.now() in days)
  prog,       \* the stored Progress document of one (student, batch)
  pcall,      \* where the progress handler in flight stands
  presult,    \* outcome of the latest progress handler
  pargs,      \* what the calculate call in flight read from the batch
  calcLog,    \* the latest calculate call completed today, until another handler writes
  shortDay,   \* the calendar day that lasted 23 hours in the server's time zone, if any
  progressDocs, \* the Progress collection: the documents of one student
  calc,       \* the calculate calls in flight, one per slot
  enrollments, \* the Enrollment collection: the documents of one student
  enroll,     \* the enrollInBatch requests in flight, one per slot
  clock,      \* Date.now() as the cache reads it, in ticks of 300 s
  cache,      \* the AnalyticsCache collection, by key
  written,    \* by key, the entry of the latest set that no invalidation followed
  got,        \* the latest AnalyticsCache.get call and what it returned
  resolves,   \* the batch and course ids that findById resolves
  facts,      \* the version of the data the aggregations read
  computed,   \* how many times an aggregation has been computed
  alog,       \* the latest analytics call that returned
  userDoc, \* the stored User document: loginAttempts and lockUntil
  login, \* the login requests in flight, one per slot
  failures, \* failed password attempts since the last successful login or lock expiry
  jobRun, \* flips at every run of the cleanup job
  roster, \* the batch's enrollments in the order find returns them, each with its student's Progress record
  dashboard, \* what the latest getInstructorBatchDashboard call returned
  cookie, \* the refreshToken cookie of the client
  refreshResp, \* the latest answer of POST /auth/refresh
  enrollment, \* the stored Enrollment document that the payment and cancel requests address
  batchDoc, \* the stored Batch document of that enrollment
  cancel, \* the cancelEnrollment requests in flight, one per slot
  isRefreshing, \* AuthClient.isRefreshing
  failedQueue, \* AuthClient.failedQueue: the calls waiting for the refresh in flight
  pending, \* the calls of AuthClient.request, one per caller
  expiredAnswers \* the 401 TOKEN_EXPIRED answers the server has given

tokenState == <<conc, db, calls, started, minted, rotatedOnce>>
authState == <<blacklist, accessMinted, req, blDone, blResult>>
progState == <<day, prog, pcall, presult, pargs, calcLog, shortDay>>
collState == <<progressDocs, calc, enrollments, enroll>>
cacheState == <<clock, cache, written, got, resolves, facts, computed, alog>>
lockState == <<userDoc, login, failures, jobRun>>
dashState == <<roster, dashboard>>
cookieState == <<cookie, refreshResp>>
cancelState == <<enrollment, batchDoc, cancel>>
clientState == <<isRefreshing, failedQueue, pending, expiredAnswers>>
vars == <<now, tokenState, authState, progState, collState, cacheState, lockState, dashState, cookieState, cancelState, clientState>>
\* what each group of handlers leaves alone
notToken == <<authState, progState, collState, cacheState, lockState, dashState, cookieState, cancelState, clientState>>
notAuth == <<tokenState, progState, collState, cacheState, lockState, dashState, cookieState, cancelState, clientState>>
notProg == <<now, tokenState, authState, collState, cacheState, lockState, dashState, cookieState, cancelState, clientState>>
notColl == <<now, tokenState, authState, progState, cacheState, lockState, dashState, cookieState, cancelState, clientState>>
notCache == <<now, tokenState, authState, progState, collState, lockState, dashState, cookieState, cancelState, clientState>>
notLock == <<now, tokenState, authState, progState, collState, cacheState, dashState, cookieState, cancelState, clientState>>
notDash == <<now, tokenState, authState, progState, collState, cacheState, lockState, cookieState, cancelState, clientState>>
notTokenAuth == <<progState, collState, cacheState, lockState, dashState, cookieState, cancelState, clientState>>
notTokenAuthLock == <<progState, collState, cacheState, dashState, cookieState, cancelState, clientState>>
notCookie == <<now, tokenState, authState, progState, collState, cacheState, lockState, dashState, cancelState, clientState>>
notCancel == <<now, tokenState, authState, progState, collState, cacheState, lockState, dashState, cookieState, clientState>>
notClient == <<now, tokenState, authState, progState, collState, cacheState, lockState, dashState, cookieState, cancelState>>

\* ---------------------------------------------------- refresh tokens ---
\* jwt.sign is a function of the payload {id, type, device} and of iat: two
\* tokens signed for the same device at the same clock value are the same string.
generateRefreshToken(dev, t) == <<dev, t>>
TokenExp(tok) == tok[2] + RefreshTTL

\* An array element that a positional $set created past the end of the array:
\* only the fields of the patch exist.
HoleRec ==
  [token |-> NoTok, deviceId |-> "none", expiresAt |-> Missing,
   lastUsedAt |-> Missing, isActive |-> FALSE, revokedReason |-> "none"]

refreshTokenDoc(tok, dev, t) ==
  [token |-> tok, deviceId |-> dev, expiresAt |-> TokenExp(tok),
   lastUsedAt |-> t, isActive |-> TRUE, revokedReason |-> "none"]

\* findById: hydration fills the schema default (Date.now) for a missing lastUsedAt
Hydrate(doc) ==
  [doc EXCEPT !.rts = [i \in 1..Len(doc.rts) |->
      IF doc.rts[i].lastUsedAt = Missing
      THEN [doc.rts[i] EXCEPT !.lastUsedAt = now] ELSE doc.rts[i]]]

\* Array.prototype.sort((a, b) => a.lastUsedAt - b.lastUsedAt): stable, ascending
\* the comparator with its operands swapped: most recently used first
InsertByLastUsedDescending(r, s) ==
  LET k == Cardinality({i \in 1..Len(s) : s[i].lastUsedAt >= r.lastUsedAt})
  IN SubSeq(s, 1, k) \o <<r>> \o SubSeq(s, k + 1, Len(s))

InsertByLastUsed(r, s) ==
  LET k == Cardinality({i \in 1..Len(s) : s[i].lastUsedAt <= r.lastUsedAt})
  IN SubSeq(s, 1, k) \o <<r>> \o SubSeq(s, k + 1, Len(s))

RECURSIVE SortByLastUsed(_)
SortByLastUsed(s) ==
  IF s = <<>> THEN <<>>
  ELSE InsertByLastUsed(s[Len(s)], SortByLastUsed(SubSeq(s, 1, Len(s) - 1)))

RemoveAt(s, i) == SubSeq(s, 1, i - 1) \o SubSeq(s, i + 1, Len(s))

\* findIndex over the indices that satisfy the callback: 0 stands for -1
FirstIndex(S) == IF S = {} THEN 0 ELSE CHOOSE i \in S : \A j \in S : i <= j

\* ------------------------------------------------- document.save() ---
NoWrite == [kind |-> "none", v |-> 0, arr |-> <<>>, idxs |-> {}, patch |-> "none", at |-> 0]
PushWrite(rec) == [NoWrite EXCEPT !.kind = "push", !.arr = <<rec>>]
SetArrayWrite(v, arr) == [NoWrite EXCEPT !.kind = "setArray", !.v = v, !.arr = arr]
SetElemsWrite(v, idxs, patch, at) ==
  IF idxs = {} THEN NoWrite
  ELSE [NoWrite EXCEPT !.kind = "setElems", !.v = v, !.idxs = idxs, !.patch = patch, !.at = at]

ApplyPatch(r, patch, at) ==
  IF patch = "touch" THEN [r EXCEPT !.lastUsedAt = at]
  ELSE [r EXCEPT !.isActive = FALSE, !.revokedReason = patch]

MaxOf(S) == CHOOSE x \in S : \A y \in S : y <= x

WriteOk(doc, w) == w.kind \in {"none", "push"} \/ doc.v = w.v

ApplyWrite(doc, w) ==
  CASE w.kind = "none" -> doc
    [] w.kind = "push" -> [rts |-> doc.rts \o w.arr, v |-> doc.v + 1]
    [] w.kind = "setArray" -> [rts |-> w.arr, v |-> doc.v + 1]
    [] w.kind = "setElems" ->
         LET n == MaxOf({Len(doc.rts)} \cup w.idxs)
             base(i) == IF i <= Len(doc.rts) THEN doc.rts[i] ELSE HoleRec
         IN [rts |-> [i \in 1..n |->
                       IF i \in w.idxs THEN ApplyPatch(base(i), w.patch, w.at)
                       ELSE base(i)],
             v |-> doc.v]

\* ------------------------------------------------------- handlers ---
Idle ==
  [op |-> "idle", pc |-> "idle", tok |-> NoTok, dev |-> "none", mode |-> "none",
   replay |-> FALSE, issued |-> FALSE, newTok |-> NoTok,
   w |-> NoWrite, sw |-> NoWrite, result |-> "none", count |-> 0]

\* a new call takes the lowest free slot (the slots are interchangeable)
Free(p) ==
  /\ calls[p].pc \in {"idle", "done"}
  /\ p <= conc
  /\ \A q \in Procs : q < p => calls[q].pc \notin {"idle", "done"}
  /\ started < (IF conc = 1 THEN MaxSeqCalls ELSE MaxCalls)

Begin(p, c) ==
  /\ calls' = [calls EXCEPT ![p] = c]
  /\ started' = started + 1

Done(c, res) == [c EXCEPT !.pc = "done", !.result = res, !.w = NoWrite, !.sw = NoWrite]

NoReq == [mw |-> "none", pc |-> "idle", token |-> Missing, blAtStart |-> FALSE,
          attached |-> FALSE, status |-> 0]

AuthIdle ==
  /\ blacklist = {}
  /\ accessMinted = {}
  /\ req = NoReq
  /\ blDone = {}
  /\ blResult = "none"

NoProgress == [exists |-> FALSE]
NoArgs == [given |-> FALSE]
NoCalc == [done |-> FALSE]

\* no Progress document stored, no progress handler in flight
ProgIdle ==
  /\ day = 0
  /\ prog = NoProgress
  /\ pcall = "idle"
  /\ presult = "none"
  /\ pargs = NoArgs
  /\ calcLog = NoCalc
  /\ shortDay = Missing

\* the batches of the student's requests
Batches == {"b1", "b2"}
Waiting == [pc |-> "idle"]

\* empty Progress and Enrollment collections, no request in flight
CollIdle ==
  /\ progressDocs = <<>>
  /\ calc = [p \in Procs |-> Waiting]
  /\ enrollments = <<>>
  /\ enroll = [p \in Procs |-> Waiting]

\* getSystemAnalytics(timeRange): the time ranges asked for
TimeRanges == {"24h", "30d"}
\* getBatchAnalytics(batchId) and getCourseAnalytics(courseId): one id each
Scoped == {"batch_analytics", "course_analytics"}
SystemKey(timeRange) == <<"system_analytics", timeRange>>
ScopedKey(kind) == <<kind, "30d">>
\* a key of another user of the cache
OtherKey == <<"response", "k">>
CacheKeys == {SystemKey(t) : t \in TimeRanges} \cup {ScopedKey(k) : k \in Scoped} \cup {OtherKey}
NoEntry == [stored |-> FALSE]
NoGet == [called |-> FALSE]
NoLog == [done |-> FALSE]

\* an empty AnalyticsCache collection, no batch and no course, no call in flight
CacheIdle ==
  /\ clock = 0
  /\ cache = [k \in CacheKeys |-> NoEntry]
  /\ written = [k \in CacheKeys |-> NoEntry]
  /\ got = NoGet
  /\ resolves = {}
  /\ facts = 0
  /\ computed = 0
  /\ alog = NoLog

\* a user who never failed a login, no login in flight
NoLockout == [loginAttempts |-> 0, lockUntil |-> Missing]
LockIdle ==
  /\ userDoc = NoLockout
  /\ login = [p \in Procs |-> Waiting]
  /\ failures = 0
  /\ jobRun = FALSE

NoDashboard == [returned |-> FALSE]

\* a batch without enrollments, no dashboard asked for
DashIdle ==
  /\ roster = <<>>
  /\ dashboard = NoDashboard

NoResponse == [status |-> 0, call |-> 0, issued |-> FALSE, newTok |-> NoTok]

\* a client without cookie, no refresh answered
CookieIdle ==
  /\ cookie = NoTok
  /\ refreshResp = NoResponse

\* course.fee, the largest fee of the model
MaxFee == 2
\* batch.startDate in clock ticks
BatchStart == 1
NoEnrollment == [exists |-> FALSE]

\* no enrollment stored, a batch that has not started, no cancel request
CancelIdle ==
  /\ enrollment = NoEnrollment
  /\ batchDoc = [startDate |-> BatchStart, currentStudents |-> 0]
  /\ cancel = [p \in Procs |-> Waiting]

\* the concurrent callers of AuthClient.request
MaxCallers == 3
Callers == 1..MaxCallers
\* the 401 TOKEN_EXPIRED answers that the server gives in one behaviour
MaxExpired == 3
\* a caller without a call in flight; frames: the handleTokenRefresh frames of
\* the call that hold isRefreshing and await their retry
NoCall == [pc |-> "idle", frames |-> 0, outcome |-> "none"]

\* new AuthClient(): isRefreshing false, failedQueue empty
ClientIdle ==
  /\ isRefreshing = FALSE
  /\ failedQueue = <<>>
  /\ pending = [r \in Callers |-> NoCall]
  /\ expiredAnswers = 0

\* no refresh token stored, no handler in flight
TokenIdle ==
  /\ db = [rts |-> <<>>, v |-> 0]
  /\ calls = [p \in Procs |-> Idle]
  /\ started = 0
  /\ minted = {}
  /\ rotatedOnce = {}

TokenInit ==
  /\ now = 0
  /\ conc = Cardinality(Procs)
  /\ TokenIdle
  /\ AuthIdle
  /\ ProgIdle
  /\ CollIdle
  /\ CacheIdle
  /\ LockIdle
  /\ DashIdle
  /\ CookieIdle
  /\ CancelIdle
  /\ ClientIdle

\* generateTokenPair called by login (auth.controller.js:132): sign, then store
generateTokenPair(p, d) ==
  /\ Free(p)
  /\ Begin(p, [Idle EXCEPT !.op = "issue", !.pc = "store_find", !.dev = d,
                           !.newTok = generateRefreshToken(d, now)])
  /\ minted' = minted \cup {generateRefreshToken(d, now)}
  /\ UNCHANGED <<notToken, now, conc, db, rotatedOnce>>

\* storeRefreshToken, from findById to the call of user.save()
storeRefreshTokenFind(p) ==
  LET c == calls[p]
      user == Hydrate(db)
      rec == refreshTokenDoc(c.newTok, c.dev, now)
      write == IF Len(user.rts) >= maxTokens
               THEN SetArrayWrite(user.v, Append(Tail(SortByLastUsed(user.rts)), rec))
               ELSE PushWrite(rec)
  IN /\ c.pc = "store_find"
     /\ calls' = [calls EXCEPT ![p] =
          [c EXCEPT !.pc = "store_save", !.sw = write,
                    !.mode = IF write.kind = "setArray" THEN "evict" ELSE "append"]]
     /\ UNCHANGED <<notToken, now, conc, db, started, minted, rotatedOnce>>

\* storeRefreshToken: user.save() reaches the store
storeRefreshTokenSave(p) ==
  LET c == calls[p]
      ok == WriteOk(db, c.sw)
  IN /\ c.pc = "store_save"
     /\ db' = IF ok THEN ApplyWrite(db, c.sw) ELSE db
     /\ calls' = [calls EXCEPT ![p] =
          IF ~ok THEN Done(c, "VersionError")
          ELSE IF c.op = "issue" THEN Done(c, "ok")
          ELSE [c EXCEPT !.pc = "save"]]
     /\ UNCHANGED <<notToken, now, conc, started, minted, rotatedOnce>>

\* rotateRefreshToken, line 173: verifyRefreshToken (jwt.verify rejects a token at
\* or after its exp), then the read is issued
rotateRefreshTokenVerify(p, T) ==
  /\ Free(p)
  /\ T \in minted
  /\ Begin(p, IF now >= TokenExp(T)
               THEN Done([Idle EXCEPT !.op = "rotate", !.tok = T,
                                      !.replay = (T \in rotatedOnce)], "InvalidToken")
               ELSE [Idle EXCEPT !.op = "rotate", !.pc = "find", !.tok = T,
                                 !.replay = (T \in rotatedOnce)])
  /\ UNCHANGED <<notToken, now, conc, db, minted, rotatedOnce>>

\* rotateRefreshToken, lines 176-209: findById, findIndex, the expiry check, the
\* revocation of the old element on the loaded copy, the signing of the new pair
rotateRefreshTokenFind(p) ==
  LET c == calls[p]
      user == Hydrate(db)
      tokenIndex == FirstIndex({i \in 1..Len(user.rts) :
                      user.rts[i].token = c.tok /\ user.rts[i].isActive})
      tokenDoc == user.rts[tokenIndex]
  IN /\ c.pc = "find"
     /\ \/ /\ tokenIndex = 0
           /\ calls' = [calls EXCEPT ![p] = Done(c, "RefreshTokenNotFound")]
           /\ UNCHANGED minted
        \/ /\ tokenIndex # 0
           /\ now > tokenDoc.expiresAt
           /\ calls' = [calls EXCEPT ![p] =
                 [c EXCEPT !.pc = "prune_save",
                           !.w = SetArrayWrite(user.v, RemoveAt(user.rts, tokenIndex))]]
           /\ UNCHANGED minted
        \/ /\ tokenIndex # 0
           /\ ~(now > tokenDoc.expiresAt)
           /\ calls' = [calls EXCEPT ![p] =
                 [c EXCEPT !.pc = "store_find", !.issued = TRUE,
                           !.dev = tokenDoc.deviceId,
                           !.newTok = generateRefreshToken(tokenDoc.deviceId, now),
                           !.w = SetElemsWrite(user.v, {tokenIndex}, "rotated", now)]]
           /\ minted' = minted \cup {generateRefreshToken(tokenDoc.deviceId, now)}
     /\ UNCHANGED <<notToken, now, conc, db, started, rotatedOnce>>

\* rotateRefreshToken, lines 195-197: the expired element was spliced out; save, throw
rotateRefreshTokenPrune(p) ==
  LET c == calls[p]
      ok == WriteOk(db, c.w)
  IN /\ c.pc = "prune_save"
     /\ db' = IF ok THEN ApplyWrite(db, c.w) ELSE db
     /\ calls' = [calls EXCEPT ![p] =
          Done(c, IF ok THEN "RefreshTokenExpired" ELSE "VersionError")]
     /\ UNCHANGED <<notToken, now, conc, started, minted, rotatedOnce>>

\* rotateRefreshToken, line 222: user.save() of the copy loaded at line 176
rotateRefreshTokenSave(p) ==
  LET c == calls[p]
      ok == WriteOk(db, c.w)
  IN /\ c.op = "rotate"
     /\ c.pc = "save"
     /\ db' = IF ok THEN ApplyWrite(db, c.w) ELSE db
     /\ calls' = [calls EXCEPT ![p] = Done(c, IF ok THEN "ok" ELSE "VersionError")]
     /\ rotatedOnce' = rotatedOnce \cup {c.tok}
     /\ UNCHANGED <<notToken, now, conc, started, minted>>

\* revokeRefreshToken, lines 234-274: findById and the marking of the loaded copy.
\* tokenToRevoke = NoTok and deviceId = "none" stand for null.
revokeCall(tokenToRevoke, deviceId) ==
  LET user == Hydrate(db)
      tokenIndex == FirstIndex({i \in 1..Len(user.rts) : user.rts[i].token = tokenToRevoke})
      byDevice == {i \in 1..Len(user.rts) :
                     user.rts[i].deviceId = deviceId /\ user.rts[i].isActive}
      allActive == {i \in 1..Len(user.rts) : user.rts[i].isActive}
      c == [Idle EXCEPT !.op = "revoke", !.pc = "save",
                        !.tok = tokenToRevoke, !.dev = deviceId]
  IN IF tokenToRevoke # NoTok
     THEN [c EXCEPT !.mode = "token",
                    !.count = IF tokenIndex # 0 THEN 1 ELSE 0,
                    !.w = SetElemsWrite(user.v,
                            IF tokenIndex # 0 THEN {tokenIndex} ELSE {},
                            "user_revoked", now)]
     ELSE IF deviceId # "none"
     THEN [c EXCEPT !.mode = "device", !.count = Cardinality(byDevice),
                    !.w = SetElemsWrite(user.v, byDevice, "device_revoked", now)]
     ELSE [c EXCEPT !.mode = "all", !.count = Cardinality(allActive),
                    !.w = SetElemsWrite(user.v, allActive, "all_revoked", now)]

revokeRefreshTokenFind(p, tokenToRevoke, deviceId) ==
  /\ Free(p)
  /\ tokenToRevoke \in minted \cup {NoTok}
  /\ deviceId \in Devices \cup {"none"}
  /\ Begin(p, revokeCall(tokenToRevoke, deviceId))
  /\ UNCHANGED <<notToken, now, conc, db, minted, rotatedOnce>>

\* revokeRefreshToken, lines 276-277: user.save(), return { revoked }
revokeRefreshTokenSave(p) ==
  LET c == calls[p]
      ok == WriteOk(db, c.w)
  IN /\ c.op \in {"revoke", "logoutAll"}
     /\ c.pc = "save"
     /\ db' = IF ok THEN ApplyWrite(db, c.w) ELSE db
     /\ calls' = [calls EXCEPT ![p] = Done(c, IF ok THEN "ok" ELSE "VersionError")]
     /\ UNCHANGED <<notToken, now, conc, started, minted, rotatedOnce>>

\* validateRefreshToken (middleware/auth.js:175-198): jwt.verify, findOne on the
\* token and on an active element (the two conditions may be met by different
\* elements), the expiry check, lastUsedAt set on the loaded copy
validateRefreshTokenFind(p, T) ==
  LET user == Hydrate(db)
      matches == /\ \E i \in 1..Len(db.rts) : db.rts[i].token = T
                 /\ \E i \in 1..Len(db.rts) : db.rts[i].isActive
      idx == FirstIndex({i \in 1..Len(user.rts) : user.rts[i].token = T})
      c == [Idle EXCEPT !.op = "validate", !.tok = T]
  IN /\ Free(p)
     /\ T \in minted
     /\ Begin(p,
          IF now >= TokenExp(T) THEN Done(c, "REFRESH_TOKEN_EXPIRED")
          ELSE IF ~matches THEN Done(c, "Invalid refresh token or user not found")
          ELSE IF now > user.rts[idx].expiresAt THEN Done(c, "Refresh token expired")
          ELSE [c EXCEPT !.pc = "save",
                         !.w = SetElemsWrite(user.v, {idx}, "touch", now)])
     /\ UNCHANGED <<notToken, now, conc, db, minted, rotatedOnce>>

\* validateRefreshToken (middleware/auth.js:202-208): user.save(), next()
validateRefreshTokenSave(p) ==
  LET c == calls[p]
      ok == WriteOk(db, c.w)
  IN /\ c.op = "validate"
     /\ c.pc = "save"
     /\ db' = IF ok THEN ApplyWrite(db, c.w) ELSE db
     /\ calls' = [calls EXCEPT ![p] =
          Done(c, IF ok THEN "ok" ELSE "Refresh token validation failed")]
     /\ UNCHANGED <<notToken, now, conc, started, minted, rotatedOnce>>

\* cleanupExpiredTokens: updateMany with $pull of the elements whose expiresAt is
\* before the cutoff; an element without expiresAt does not match $lt
NotExpired(r) == ~(r.expiresAt # Missing /\ r.expiresAt < now)

cleanupExpiredTokens ==
  /\ db' = [db EXCEPT !.rts = SelectSeq(db.rts, NotExpired)]
  /\ UNCHANGED <<notToken, now, conc, calls, started, minted, rotatedOnce>>

Tick ==
  /\ now < MaxTime
  /\ now' = now + 1
  /\ UNCHANGED <<tokenState, authState, progState, collState, cacheState, lockState, dashState, cookieState, cancelState, clientState>>

TokenNext ==
  \/ \E p \in Procs, d \in Devices : generateTokenPair(p, d)
  \/ \E p \in Procs : storeRefreshTokenFind(p)
  \/ \E p \in Procs : storeRefreshTokenSave(p)
  \/ \E p \in Procs, T \in minted : rotateRefreshTokenVerify(p, T)
  \/ \E p \in Procs : rotateRefreshTokenFind(p)
  \/ \E p \in Procs : rotateRefreshTokenPrune(p)
  \/ \E p \in Procs : rotateRefreshTokenSave(p)
  \/ \E p \in Procs, T \in minted : revokeRefreshTokenFind(p, T, "none")
  \/ \E p \in Procs, d \in Devices \cup {"none"} : revokeRefreshTokenFind(p, NoTok, d)
  \/ \E p \in Procs : revokeRefreshTokenSave(p)
  \/ \E p \in Procs, T \in minted : validateRefreshTokenFind(p, T)
  \/ \E p \in Procs : validateRefreshTokenSave(p)
  \/ cleanupExpiredTokens
  \/ Tick

SpecToken == TokenInit /\ [][TokenNext]_vars

\* the same handlers, one request at a time
TokenSeqInit ==
  /\ now = 0
  /\ conc = 1
  /\ TokenIdle
  /\ AuthIdle
  /\ ProgIdle
  /\ CollIdle
  /\ CacheIdle
  /\ LockIdle
  /\ DashIdle
  /\ CookieIdle
  /\ CancelIdle
  /\ ClientIdle

SpecTokenSeq == TokenSeqInit /\ [][TokenNext]_vars

\* ------------------------------------------- access-token blacklist ---
\* jwt.sign with a fixed payload and secret is a function of iat alone: an
\* access token of the user is identified by the tick it was signed at
generateAccessToken == <<"access", now>>

\* decoded.exp of an access token
AccessExp(t) == t[2] + AccessTTL

\* crypto.createHash('sha256').update(token).digest('hex')
Sha256(t) == <<"sha256", t>>

\* the reason enum of the TokenBlacklist schema
ReasonEnum == {"logout", "security_breach", "password_change",
               "suspicious_activity", "admin_action", "other"}

\* the reasons the controllers pass (auth.controller.js:224, :263)
CallerReasons == {"logout", "logout_all"}

\* login / refresh hand out an access token
signAccessToken ==
  /\ accessMinted' = accessMinted \cup {generateAccessToken}
  /\ UNCHANGED <<notAuth, now, blacklist, req, blDone, blResult>>

\* a lookup by hash alone: findOne({token: hash})
NoExpiryFilterLookup(t) ==
  \E e \in blacklist : e.token = Sha256(t)

\* findOne({token: hash, expiresAt: {$gt: new Date()}})
isAccessTokenBlacklisted(t) ==
  \E e \in blacklist : e.token = Sha256(t) /\ e.expiresAt > now

\* TokenBlacklist.create: schema validation, then the insert under the
\* unique index on token; either failure makes the call throw
blacklistAccessToken(t, reason) ==
  LET doc == [token |-> Sha256(t), expiresAt |-> AccessExp(t),
              reason |-> reason, createdAt |-> now]
  IN /\ IF reason \notin ReasonEnum
          THEN /\ blResult' = "ValidationError"
               /\ UNCHANGED <<blacklist, blDone>>
          ELSE IF \E e \in blacklist : e.token = doc.token
            THEN /\ blResult' = "DuplicateKey"
                 /\ UNCHANGED <<blacklist, blDone>>
            ELSE /\ blacklist' = blacklist \cup {doc}
                 /\ blResult' = "true"
                 /\ blDone' = IF reason = "logout" THEN blDone \cup {t} ELSE blDone
     /\ UNCHANGED <<notAuth, now, accessMinted, req>>

\* jwt.verify: rejects a token whose exp has been reached
verifyAccessToken(t) == now < AccessExp(t)

\* protect, up to the answer of the blacklist lookup
protectCheckBlacklist(t) ==
  /\ req.pc = "idle"
  /\ req' = IF isAccessTokenBlacklisted(t)
              THEN [NoReq EXCEPT !.mw = "protect", !.pc = "responded", !.token = t,
                                 !.blAtStart = TRUE, !.status = 401]
              ELSE [NoReq EXCEPT !.mw = "protect", !.pc = "verify", !.token = t]
  /\ UNCHANGED <<notAuth, now, blacklist, accessMinted, blDone, blResult>>

\* protect, from verifyAccessToken to next(); userOk: the user exists, is
\* active, and has not changed the password since iat; locked: isLocked()
protectVerify(userOk, locked) ==
  /\ req.pc = "verify"
  /\ req.mw = "protect"
  /\ req' = IF ~verifyAccessToken(req.token) \/ ~userOk
              THEN [req EXCEPT !.pc = "responded", !.status = 401]
              ELSE IF locked
                THEN [req EXCEPT !.pc = "responded", !.status = 423]
                ELSE [req EXCEPT !.pc = "next", !.attached = TRUE]
  /\ UNCHANGED <<notAuth, now, blacklist, accessMinted, blDone, blResult>>

\* optionalAuth: verify, load the user, attach, next(); errors are swallowed
optionalAuth(t, userOk, locked) ==
  /\ req.pc = "idle"
  /\ req' = [NoReq EXCEPT !.mw = "optionalAuth", !.pc = "next", !.token = t,
                          !.blAtStart = isAccessTokenBlacklisted(t),
                          !.attached = verifyAccessToken(t) /\ userOk /\ ~locked]
  /\ UNCHANGED <<notAuth, now, blacklist, accessMinted, blDone, blResult>>

\* the response is sent and the next request arrives
requestEnd ==
  /\ req.pc \in {"responded", "next"}
  /\ req' = NoReq
  /\ UNCHANGED <<notAuth, now, blacklist, accessMinted, blDone, blResult>>

\* MongoDB's TTL monitor over the two TTL indexes of TokenBlacklist
ttlMonitor ==
  /\ blacklist' = {e \in blacklist :
                     ~(e.expiresAt <= now \/ e.createdAt + BlacklistDocTTL <= now)}
  /\ UNCHANGED <<notAuth, now, accessMinted, req, blDone, blResult>>

\* a Date that is neither undefined nor null
IsSet(d) == d # Missing /\ d # NullValue

\* the loginAttempts from which cleanupTokens resets an expired lock
CleanupAttempts == 5

\* User.updateMany({lockUntil: {$lt: new Date(), $exists: true},
\* loginAttempts: {$gte: 5}}, {$set: {loginAttempts: 0, lockUntil: null}})
ResetExpiredLock(u) ==
  IF IsSet(u.lockUntil) /\ u.lockUntil < now /\ u.loginAttempts >= CleanupAttempts
  THEN [loginAttempts |-> 0, lockUntil |-> NullValue]
  ELSE u

\* cleanupTokens, one run: tokenService.cleanupExpiredTokens(), then
\* TokenBlacklist.deleteMany({expiresAt: {$lt: new Date()}}), then the reset of
\* the expired locks; the three updates read the clock within the same tick
cleanupTokens ==
  /\ db' = [db EXCEPT !.rts = SelectSeq(db.rts, NotExpired)]
  /\ blacklist' = {e \in blacklist : ~(e.expiresAt < now)}
  /\ userDoc' = ResetExpiredLock(userDoc)
  /\ jobRun' = ~jobRun
  /\ UNCHANGED <<now, conc, calls, started, minted, rotatedOnce, accessMinted, req,
                 blDone, blResult, notTokenAuthLock, login, failures>>

AuthNext ==
  \/ signAccessToken
  \/ \E t \in accessMinted, reason \in CallerReasons : blacklistAccessToken(t, reason)
  \/ \E t \in accessMinted : protectCheckBlacklist(t)
  \/ \E userOk \in BOOLEAN, locked \in BOOLEAN : protectVerify(userOk, locked)
  \/ \E t \in accessMinted, userOk \in BOOLEAN, locked \in BOOLEAN :
       optionalAuth(t, userOk, locked)
  \/ requestEnd
  \/ ttlMonitor
  \/ cleanupTokens
  \/ Tick

AuthInit ==
  /\ now = 0
  /\ conc = 1
  /\ TokenIdle
  /\ AuthIdle
  /\ ProgIdle
  /\ CollIdle
  /\ CacheIdle
  /\ LockIdle
  /\ DashIdle
  /\ CookieIdle
  /\ CancelIdle
  /\ ClientIdle

SpecAuth == AuthInit /\ [][AuthNext]_vars

\* ------------------------------------------------- progress records ---
\* the batch's catalogue: what the handlers can be asked about
Materials == {"m1", "m2"}
Sessions == {"s1"}
Assignments == {"a1"}
\* the clock stops once it has reached MaxDay
MaxDay == 2
\* time passes a day at a time, or a week and a day at a time
DaySteps == {1, 8}

\* Percentages are rationals count/total * 100.  They are kept as integers
\* in units of 1/Scale, Scale being a common multiple of every possible
\* total; overallProgress, a sum of fifths of them, in units of 1/(5*Scale).
RECURSIVE Fact(_)
Fact(n) == IF n <= 1 THEN 1 ELSE n * Fact(n - 1)
\* the largest total of a record that is saved as it is given
MaxRiskTotal == 3
MaxTotal == MaxOf({Cardinality(Materials), Cardinality(Sessions), Cardinality(Assignments),
                   MaxRiskTotal})
Scale == Fact(MaxTotal)
Percentage(count, total) == (count * 100 * Scale) \div total

\* the status a handler is given for a material / a session: the ones the
\* counts of completed materials and attended sessions select
MaterialStatus == {"completed"}
AttendanceStatus == {"present"}

\* new Progress({...}): the schema defaults.  materialProgress and
\* sessionAttendance map an id to the status of its entry, "none" when the
\* array holds no entry for it (the handlers find entries by id only).
newProgress ==
  [exists |-> TRUE,
   materialProgress |-> [m \in Materials |-> "none"],
   sessionAttendance |-> [x \in Sessions |-> "none"],
   totalMaterials |-> 0, completedMaterials |-> 0, materialCompletionPercentage |-> 0,
   totalSessions |-> 0, attendedSessions |-> 0, attendancePercentage |-> 0,
   totalAssignments |-> 0, submittedAssignments |-> 0,
   assignmentCompletionPercentage |-> 0,
   overallProgress |-> 0, isAtRisk |-> FALSE, riskFactors |-> <<>>,
   lastActive |-> Missing, currentStreak |-> 0, longestStreak |-> 0]

\* the virtual daysSinceLastActive
daysSinceLastActive(r) == IF r.lastActive = Missing THEN 999 ELSE day - r.lastActive

\* a rule set that records every factor as medium
RiskFactorMedium(name, high) == [factor |-> name, severity |-> "medium"]

RiskFactor(name, high) == [factor |-> name, severity |-> IF high THEN "high" ELSE "medium"]

updateRiskAssessment(r) ==
  LET attendance == IF r.attendancePercentage < 70 * Scale
                      THEN <<RiskFactor("low_attendance", r.attendancePercentage < 50 * Scale)>>
                      ELSE <<>>
      material == IF r.materialCompletionPercentage < 60 * Scale
                    THEN <<RiskFactor("low_material_completion",
                                      r.materialCompletionPercentage < 40 * Scale)>>
                    ELSE <<>>
      assignment == IF r.assignmentCompletionPercentage < 50 * Scale
                      THEN <<RiskFactor("low_assignment_submission",
                                        r.assignmentCompletionPercentage < 30 * Scale)>>
                      ELSE <<>>
      inactive == IF daysSinceLastActive(r) > 7
                    THEN <<RiskFactor("inactive_for_7_days", TRUE)>>
                    ELSE <<>>
      riskFactors == attendance \o material \o assignment \o inactive
  IN [r EXCEPT !.isAtRisk = Len(riskFactors) > 0, !.riskFactors = riskFactors]

\* the percentages and the weighted average of the pre('save') hook
savePercentages(r) ==
  LET p == [r EXCEPT
              !.materialCompletionPercentage =
                 IF r.totalMaterials > 0
                   THEN Percentage(r.completedMaterials, r.totalMaterials) ELSE @,
              !.attendancePercentage =
                 IF r.totalSessions > 0
                   THEN Percentage(r.attendedSessions, r.totalSessions) ELSE @,
              !.assignmentCompletionPercentage =
                 IF r.totalAssignments > 0
                   THEN Percentage(r.submittedAssignments, r.totalAssignments) ELSE @]
  IN [p EXCEPT !.overallProgress = 2 * p.materialCompletionPercentage
                                   + p.attendancePercentage
                                   + 2 * p.assignmentCompletionPercentage]

\* a hook that leaves the risk assessment as it was loaded
preSaveKeepsRisk(r) == savePercentages(r)

\* progressSchema.pre('save'); schema validation has run before it, so what
\* the hook computes is stored as it is
preSave(r) == updateRiskAssessment(savePercentages(r))

\* a streak that also counts a second activity of the same day
updateStreakCountsSameDay(r) ==
  LET current == IF r.lastActive = Missing THEN 1
                 ELSE IF day - r.lastActive <= 1 THEN r.currentStreak + 1
                 ELSE 1
      longest == IF r.lastActive = Missing THEN 1 ELSE r.longestStreak
  IN [r EXCEPT !.currentStreak = current,
               !.longestStreak = IF current > longest THEN current ELSE longest,
               !.lastActive = day]

\* new Date(year, month, date): the hours from the epoch to the local midnight
\* that starts calendar day d
LocalMidnight(d) == 24 * d - (IF shortDay # Missing /\ d > shortDay THEN 1 ELSE 0)

updateStreak(r) ==
  LET today == LocalMidnight(day)
      lastActiveDate == LocalMidnight(r.lastActive)
      daysDifference == (today - lastActiveDate) \div 24
      current == IF r.lastActive = Missing THEN 1
                 ELSE IF daysDifference = 1 THEN r.currentStreak + 1
                 ELSE IF daysDifference > 1 THEN 1
                 ELSE r.currentStreak
      longest == IF r.lastActive = Missing THEN 1 ELSE r.longestStreak
  IN [r EXCEPT !.currentStreak = current,
               !.longestStreak = IF current > longest THEN current ELSE longest,
               !.lastActive = day]

\* calculateStudentProgress up to the save inside Progress.calculateForStudent;
\* materials, sessions, assignments: what the batch publishes at the time of
\* the call; submissions: the assignments the student has submitted
calculateForStudent(enrolled, materials, sessions, assignments, submissions) ==
  LET base == IF prog.exists THEN prog ELSE newProgress
      doc == [base EXCEPT
                !.materialProgress =
                   [m \in Materials |-> IF m \in materials THEN "not_started" ELSE "none"],
                !.totalMaterials = Cardinality(materials),
                !.completedMaterials = 0,
                !.totalSessions = Cardinality(sessions),
                !.attendedSessions = 0,
                !.totalAssignments = Cardinality(assignments),
                !.submittedAssignments = Cardinality(assignments \cap submissions)]
  IN /\ pcall = "idle"
     /\ IF ~enrolled
          THEN /\ presult' = "Student not enrolled in this batch"
               /\ UNCHANGED <<prog, pcall, pargs>>
          ELSE /\ prog' = preSave(doc)
               /\ pcall' = "updateStreak"
               /\ presult' = "pending"
               /\ pargs' = [given |-> TRUE, materials |-> materials, sessions |-> sessions,
                            assignments |-> assignments, submissions |-> submissions]
     /\ UNCHANGED <<notProg, day, calcLog, shortDay>>

\* what the claims compare of the record a calculate call returns
Returned(r) ==
  [materialCompletionPercentage |-> r.materialCompletionPercentage,
   attendancePercentage |-> r.attendancePercentage,
   assignmentCompletionPercentage |-> r.assignmentCompletionPercentage,
   overallProgress |-> r.overallProgress,
   riskFactors |-> {r.riskFactors[i] : i \in 1..Len(r.riskFactors)},
   currentStreak |-> r.currentStreak,
   longestStreak |-> r.longestStreak]

\* calculateStudentProgress: progress.updateStreak(); await progress.save()
calculateStudentProgress ==
  /\ pcall = "updateStreak"
  /\ prog' = preSave(updateStreak(prog))
  /\ pcall' = "idle"
  /\ presult' = "ok"
  /\ pargs' = NoArgs
  /\ calcLog' = [done |-> TRUE, args |-> pargs, day |-> day, returned |-> Returned(prog'),
                 repeated |-> calcLog.done /\ calcLog.args = pargs /\ calcLog.day = day]
  /\ UNCHANGED <<notProg, day, shortDay>>

CountOf(f, status) == Cardinality({x \in DOMAIN f : f[x] = status})

updateMaterialProgress(materialId, status) ==
  /\ pcall = "idle"
  /\ IF ~prog.exists
       THEN /\ presult' = "Progress record not found"
            /\ UNCHANGED <<prog, calcLog>>
       ELSE LET materialProgress == [prog.materialProgress EXCEPT ![materialId] = status]
            IN /\ prog' = preSave([prog EXCEPT
                            !.materialProgress = materialProgress,
                            !.completedMaterials = CountOf(materialProgress, "completed")])
               /\ presult' = "ok"
               /\ calcLog' = NoCalc
  /\ UNCHANGED <<notProg, day, pcall, pargs, shortDay>>

updateSessionAttendance(sessionId, status) ==
  /\ pcall = "idle"
  /\ IF ~prog.exists
       THEN /\ presult' = "Progress record not found"
            /\ UNCHANGED <<prog, calcLog>>
       ELSE LET sessionAttendance == [prog.sessionAttendance EXCEPT ![sessionId] = status]
            IN /\ prog' = preSave([prog EXCEPT
                            !.sessionAttendance = sessionAttendance,
                            !.attendedSessions = CountOf(sessionAttendance, "present")])
               /\ presult' = "ok"
               /\ calcLog' = NoCalc
  /\ UNCHANGED <<notProg, day, pcall, pargs, shortDay>>

NextDay(k) ==
  /\ day < MaxDay
  /\ day' = day + k
  /\ calcLog' = NoCalc
  /\ UNCHANGED <<notProg, prog, pcall, presult, pargs, shortDay>>

ProgressNext ==
  \/ calculateForStudent(FALSE, {}, {}, {}, {})
  \/ \E materials \in SUBSET Materials, sessions \in SUBSET Sessions,
        assignments \in SUBSET Assignments :
       \E submissions \in SUBSET assignments :
         calculateForStudent(TRUE, materials, sessions, assignments, submissions)
  \/ calculateStudentProgress
  \/ \E m \in Materials, status \in MaterialStatus : updateMaterialProgress(m, status)
  \/ \E x \in Sessions, status \in AttendanceStatus : updateSessionAttendance(x, status)
  \/ \E k \in DaySteps : NextDay(k)

ProgressInit ==
  /\ now = 0
  /\ conc = 1
  /\ TokenIdle
  /\ AuthIdle
  /\ ProgIdle
  /\ CollIdle
  /\ CacheIdle
  /\ LockIdle
  /\ DashIdle
  /\ CookieIdle
  /\ CancelIdle
  /\ ClientIdle

SpecProgress == ProgressInit /\ [][ProgressNext]_vars

\* ------------------------------------- one Progress record per pair ---

\* new Progress({student, batch, ...}) of calculateForStudent
newProgressDoc(batch) == [batch |-> batch, currentStreak |-> 0]

\* a collection without the unique index
InsertsAnyDocument(docs, doc) == TRUE

\* progressSchema.index({student: 1, batch: 1}, {unique: true}): whether the
\* index admits doc into docs
ProgressIndexAdmits(docs, doc) == \A i \in 1..Len(docs) : docs[i].batch # doc.batch

\* the message of the Error that calculateStudentProgress throws
NotEnrolled == "Student not enrolled in this batch"

\* Progress.findOne({student, batch}): the position of the document, 0 if none
FindProgress(batch) ==
  IF \E i \in 1..Len(progressDocs) : progressDocs[i].batch = batch
    THEN CHOOSE i \in 1..Len(progressDocs) :
           /\ progressDocs[i].batch = batch
           /\ \A j \in 1..(i - 1) : progressDocs[j].batch # batch
    ELSE 0

\* calculateStudentProgress up to Progress.findOne in calculateForStudent
calculateFindOne(p, batch) ==
  /\ calc[p].pc = "idle"
  /\ calc' = [calc EXCEPT ![p] = [pc |-> "found", batch |-> batch, at |-> FindProgress(batch)]]
  /\ UNCHANGED <<notColl, progressDocs, enrollments, enroll>>

\* await progress.save() of calculateForStudent: the insert of a new document
\* or the update of the loaded one by _id
calculateSave(p) ==
  LET c == calc[p]
      doc == newProgressDoc(c.batch)
  IN /\ c.pc = "found"
     /\ IF c.at = 0
          THEN IF ProgressIndexAdmits(progressDocs, doc)
                 THEN /\ progressDocs' = Append(progressDocs, doc)
                      /\ calc' = [calc EXCEPT ![p] = [pc |-> "saved", batch |-> c.batch,
                                                      at |-> Len(progressDocs) + 1]]
                 ELSE /\ calc' = [calc EXCEPT ![p] = [pc |-> "E11000 duplicate key",
                                                      batch |-> c.batch]]
                      /\ UNCHANGED progressDocs
          ELSE /\ calc' = [calc EXCEPT ![p].pc = "saved"]
               /\ UNCHANGED progressDocs
     /\ UNCHANGED <<notColl, enrollments, enroll>>

\* progress.updateStreak(); await progress.save() of calculateStudentProgress
calculateUpdateStreak(p) ==
  LET c == calc[p]
  IN /\ c.pc = "saved"
     /\ progressDocs' = [progressDocs EXCEPT ![c.at].currentStreak = 1]
     /\ calc' = [calc EXCEPT ![p] = [pc |-> "returned", batch |-> c.batch]]
     /\ UNCHANGED <<notColl, enrollments, enroll>>

\* the call has returned or thrown; the slot takes the next request
calculateEnd(p) ==
  /\ calc[p].pc \in {"returned", "E11000 duplicate key", NotEnrolled}
  /\ calc' = [calc EXCEPT ![p] = Waiting]
  /\ UNCHANGED <<notColl, progressDocs, enrollments, enroll>>

ProgressRaceNext ==
  \/ \E p \in Procs, b \in Batches : calculateFindOne(p, b)
  \/ \E p \in Procs : calculateSave(p)
  \/ \E p \in Procs : calculateUpdateStreak(p)
  \/ \E p \in Procs : calculateEnd(p)

ProgressRaceInit ==
  /\ now = 0
  /\ conc = Cardinality(Procs)
  /\ TokenIdle
  /\ AuthIdle
  /\ ProgIdle
  /\ CollIdle
  /\ CacheIdle
  /\ LockIdle
  /\ DashIdle
  /\ CookieIdle
  /\ CancelIdle
  /\ ClientIdle

SpecProgressRace == ProgressRaceInit /\ [][ProgressRaceNext]_vars

\* ----------------------------------------- one Enrollment per pair ---

PaymentMethods == {"fullPayment", "emi", "cash"}

\* a collection without the unique index
AdmitsDuplicates(docs, doc) == TRUE

\* enrollmentSchema.index({student: 1, batch: 1}, {unique: true}): whether
\* the index admits doc into docs
EnrollmentIndexAdmits(docs, doc) == \A i \in 1..Len(docs) : docs[i].batch # doc.batch

EnrollmentsOf(batch) == {i \in 1..Len(enrollments) : enrollments[i].batch = batch}

Respond(batch, hadActive, accepted, status, message) ==
  [pc |-> "responded", batch |-> batch, hadActive |-> hadActive, accepted |-> accepted,
   status |-> status, message |-> message]

\* enrollInBatch up to Enrollment.findOne and the payment method; accepted:
\* the user is a student and the batch is active, not full and not started
enrollInBatchFindOne(p, batch, accepted, paymentMethod) ==
  LET hadActive == \E i \in EnrollmentsOf(batch) : enrollments[i].enrollmentStatus = "active"
  IN /\ enroll[p].pc = "idle"
     /\ enroll' = [enroll EXCEPT ![p] =
          IF ~accepted
            THEN Respond(batch, hadActive, FALSE, 400, "Batch does not accept the request")
          ELSE IF EnrollmentsOf(batch) # {}
            THEN Respond(batch, hadActive, TRUE, 400, "Already enrolled in this batch")
          ELSE IF paymentMethod \notin {"fullPayment", "emi"}
            THEN Respond(batch, hadActive, TRUE, 400, "Invalid payment method")
          ELSE [pc |-> "create", batch |-> batch, hadActive |-> hadActive]]
     /\ UNCHANGED <<notColl, progressDocs, calc, enrollments>>

\* Enrollment.create({...}) and what follows it; a rejected insert is caught
\* and answered with status 500
enrollInBatchCreate(p) ==
  LET e == enroll[p]
      doc == [batch |-> e.batch, enrollmentStatus |-> "pending"]
  IN /\ e.pc = "create"
     /\ IF EnrollmentIndexAdmits(enrollments, doc)
          THEN /\ enrollments' = Append(enrollments, doc)
               /\ enroll' = [enroll EXCEPT ![p] =
                    Respond(e.batch, e.hadActive, TRUE, 201,
                            "Enrollment created successfully. Please complete payment.")]
          ELSE /\ enroll' = [enroll EXCEPT ![p] =
                    Respond(e.batch, e.hadActive, TRUE, 500, "E11000 duplicate key")]
               /\ UNCHANGED enrollments
     /\ UNCHANGED <<notColl, progressDocs, calc>>

\* the response has been sent; the slot takes the next request
enrollInBatchEnd(p) ==
  /\ enroll[p].pc = "responded"
  /\ enroll' = [enroll EXCEPT ![p] = Waiting]
  /\ UNCHANGED <<notColl, progressDocs, calc, enrollments>>

\* paymentCallback of a captured payment: the enrollment becomes active
paymentCallback(i) ==
  /\ i \in 1..Len(enrollments)
  /\ enrollments[i].enrollmentStatus = "pending"
  /\ enrollments' = [enrollments EXCEPT ![i].enrollmentStatus = "active"]
  /\ UNCHANGED <<notColl, progressDocs, calc, enroll>>

EnrollNext ==
  \/ \E p \in Procs, b \in Batches, accepted \in BOOLEAN, m \in PaymentMethods :
       enrollInBatchFindOne(p, b, accepted, m)
  \/ \E p \in Procs : enrollInBatchCreate(p)
  \/ \E p \in Procs : enrollInBatchEnd(p)
  \/ \E i \in 1..Cardinality(Batches) : paymentCallback(i)

EnrollInit ==
  /\ now = 0
  /\ conc = Cardinality(Procs)
  /\ TokenIdle
  /\ AuthIdle
  /\ ProgIdle
  /\ CollIdle
  /\ CacheIdle
  /\ LockIdle
  /\ DashIdle
  /\ CookieIdle
  /\ CancelIdle
  /\ ClientIdle

SpecEnroll == EnrollInit /\ [][EnrollNext]_vars

\* ------------------------------------------- calculate and enrollment ---

\* a lookup that leaves the status out: Enrollment.findOne({student, batch})
AnyEnrollment(batch) == EnrollmentsOf(batch) # {}

\* Enrollment.findOne({student, batch, enrollmentStatus: "active"}) finds one
ActiveEnrollment(batch) ==
  \E i \in EnrollmentsOf(batch) : enrollments[i].enrollmentStatus = "active"

\* calculateStudentProgress from Enrollment.findOne: the throw when no active
\* enrollment is found, otherwise on to Progress.findOne in calculateForStudent
calculateEnrollmentFindOne(p, batch) ==
  /\ calc[p].pc = "idle"
  /\ IF ActiveEnrollment(batch)
       THEN calculateFindOne(p, batch)
       ELSE /\ calc' = [calc EXCEPT ![p] = [pc |-> NotEnrolled, batch |-> batch]]
            /\ UNCHANGED <<notColl, progressDocs, enrollments, enroll>>

\* calculate calls next to the requests that create and activate enrollments
CalculateNext ==
  \/ \E p \in Procs, b \in Batches : calculateEnrollmentFindOne(p, b)
  \/ \E p \in Procs : calculateSave(p)
  \/ \E p \in Procs : calculateUpdateStreak(p)
  \/ \E p \in Procs : calculateEnd(p)
  \/ \E p \in Procs, b \in Batches, m \in PaymentMethods :
       enrollInBatchFindOne(p, b, TRUE, m)
  \/ \E p \in Procs : enrollInBatchCreate(p)
  \/ \E p \in Procs : enrollInBatchEnd(p)
  \/ \E i \in 1..Cardinality(Batches) : paymentCallback(i)

CalculateInit ==
  /\ now = 0
  /\ conc = Cardinality(Procs)
  /\ TokenIdle
  /\ AuthIdle
  /\ ProgIdle
  /\ CollIdle
  /\ CacheIdle
  /\ LockIdle
  /\ DashIdle
  /\ CookieIdle
  /\ CancelIdle
  /\ ClientIdle

SpecCalculate == CalculateInit /\ [][CalculateNext]_vars

\* ------------------------------------------------ the analytics cache ---

MaxClock == 3
MaxFacts == 1
MaxComputed == 3

\* what get returns for a missing or expired entry
Null == [isNull |-> TRUE]

\* the data and the ttl (in ticks) another user of the cache calls set with
Values == {[body |-> 1], [body |-> 2]}
TTLs == {1, 2}

\* a value as the Mixed field `data` gives it back: an undefined field is
\* stored as null
Stored(data) == [f \in DOMAIN data |-> IF data[f] = Undefined THEN NullValue ELSE data[f]]

\* a set whose entry expires at once
CacheSetWithoutTtl(c, key, data, ttl) ==
  [c EXCEPT ![key] = [stored |-> TRUE, data |-> Stored(data), expiresAt |-> clock]]

\* AnalyticsCache.set: findOneAndUpdate({key}, {key, data, expiresAt}, {upsert: true})
CacheSet(c, key, data, ttl) ==
  [c EXCEPT ![key] = [stored |-> TRUE, data |-> Stored(data), expiresAt |-> clock + ttl]]

\* AnalyticsCache.get
CacheGet(c, key) ==
  IF ~c[key].stored \/ c[key].expiresAt < clock THEN Null ELSE c[key].data

\* AnalyticsCache.set(key, data, ttl) by another user of the cache
cacheSet(key, data, ttl) ==
  /\ cache' = CacheSet(cache, key, data, ttl)
  /\ written' = [written EXCEPT ![key] = cache'[key]]
  /\ UNCHANGED <<notCache, clock, got, resolves, facts, computed, alog>>

\* AnalyticsCache.get(key)
cacheGet(key) ==
  /\ got' = [called |-> TRUE, key |-> key, at |-> clock, value |-> CacheGet(cache, key)]
  /\ UNCHANGED <<notCache, clock, cache, written, resolves, facts, computed, alog>>

\* AnalyticsCache.invalidate(key), and clearCache for a pattern that matches key
invalidate(key) ==
  /\ cache' = [cache EXCEPT ![key] = NoEntry]
  /\ written' = [written EXCEPT ![key] = NoEntry]
  /\ alog' = IF alog.done /\ alog.key = key THEN NoLog ELSE alog
  /\ UNCHANGED <<notCache, clock, got, resolves, facts, computed>>

\* MongoDB's TTL monitor over the index {expiresAt: 1}, expireAfterSeconds: 0
cacheTtlMonitor ==
  /\ \E k \in CacheKeys : cache[k].stored /\ cache[k].expiresAt <= clock
  /\ cache' = [k \in CacheKeys |->
                 IF cache[k].stored /\ cache[k].expiresAt <= clock THEN NoEntry ELSE cache[k]]
  /\ UNCHANGED <<notCache, clock, written, got, resolves, facts, computed, alog>>

ClockTick ==
  /\ clock < MaxClock
  /\ clock' = clock + 1
  /\ UNCHANGED <<notCache, cache, written, got, resolves, facts, computed, alog>>

CacheNext ==
  \/ \E v \in Values, ttl \in TTLs : cacheSet(OtherKey, v, ttl)
  \/ \E k \in CacheKeys : cacheGet(k)
  \/ invalidate(OtherKey)
  \/ cacheTtlMonitor
  \/ ClockTick

CacheInit ==
  /\ now = 0
  /\ conc = 1
  /\ TokenIdle
  /\ AuthIdle
  /\ ProgIdle
  /\ CollIdle
  /\ CacheIdle
  /\ LockIdle
  /\ DashIdle
  /\ CookieIdle
  /\ CancelIdle
  /\ ClientIdle

SpecCache == CacheInit /\ [][CacheNext]_vars

\* ---------------------------------------------- analytics, cache-aside ---

\* ttl of the entry getSystemAnalytics writes: 300 s for '24h', 3600 s otherwise
SystemTTL(timeRange) == IF timeRange = "24h" THEN 1 ELSE 12
\* ttl of the entry getBatchAnalytics (300 s) and getCourseAnalytics (3600 s) write
ScopedTTL(kind) == IF kind = "batch_analytics" THEN 1 ELSE 12
\* the id a scoped call must resolve, and the course a batch populates
Entity(kind) == IF kind = "batch_analytics" THEN "batch" ELSE "course"
Entities == {"batch", "course"}
NotFound(kind) == IF kind = "batch_analytics" THEN "Batch not found" ELSE "Course not found"

\* the analytics object of getSystemAnalytics and getCourseAnalytics
Analytics == [facts |-> facts, calculatedAt |-> clock]
\* the analytics object of getBatchAnalytics: batchInfo.course is
\* batch.course?.title
BatchAnalytics ==
  [facts |-> facts, calculatedAt |-> clock,
   course |-> IF "course" \in resolves THEN facts ELSE Undefined]

Hit(key, data) == [done |-> TRUE, key |-> key, ok |-> TRUE, hit |-> TRUE, result |-> data]
Miss(key, data, expiresAt) ==
  [done |-> TRUE, key |-> key, ok |-> TRUE, hit |-> FALSE, result |-> data,
   expiresAt |-> expiresAt]
Thrown(key, message) == [done |-> TRUE, key |-> key, ok |-> FALSE, error |-> message]

\* what a cache-miss call leaves in the cache and returns; stored: whether
\* `await AnalyticsCache.set(cacheKey, analytics, ttl)` succeeds
CacheTheResults(key, data, ttl, stored) ==
  IF stored
    THEN /\ cache' = CacheSet(cache, key, data, ttl)
         /\ written' = [written EXCEPT ![key] = cache'[key]]
         /\ alog' = Miss(key, data, clock + ttl)
    ELSE /\ alog' = Thrown(key, "cache write failed")
         /\ UNCHANGED <<cache, written>>

getSystemAnalytics(timeRange, stored) ==
  LET key == SystemKey(timeRange)
      cached == CacheGet(cache, key)
  IN /\ IF cached # Null
          THEN /\ alog' = Hit(key, cached)
               /\ UNCHANGED <<cache, written, computed>>
          ELSE /\ computed < MaxComputed
               /\ computed' = computed + 1
               /\ CacheTheResults(key, Analytics, SystemTTL(timeRange), stored)
     /\ UNCHANGED <<notCache, clock, got, resolves, facts>>

\* getBatchAnalytics / getCourseAnalytics
getScopedAnalytics(kind, stored) ==
  LET key == ScopedKey(kind)
      cached == CacheGet(cache, key)
  IN /\ IF cached # Null
          THEN /\ alog' = Hit(key, cached)
               /\ UNCHANGED <<cache, written, computed>>
          ELSE IF Entity(kind) \notin resolves
            THEN /\ alog' = Thrown(key, NotFound(kind))
                 /\ UNCHANGED <<cache, written, computed>>
            ELSE /\ computed < MaxComputed
                 /\ computed' = computed + 1
                 /\ CacheTheResults(key,
                                    IF kind = "batch_analytics" THEN BatchAnalytics ELSE Analytics,
                                    ScopedTTL(kind), stored)
     /\ UNCHANGED <<notCache, clock, got, resolves, facts>>

\* the collections the aggregations read change
dataChanges ==
  /\ facts < MaxFacts
  /\ facts' = facts + 1
  /\ UNCHANGED <<notCache, clock, cache, written, got, resolves, computed, alog>>

\* a batch or a course is created
entityCreated(e) ==
  /\ e \notin resolves
  /\ resolves' = resolves \cup {e}
  /\ UNCHANGED <<notCache, clock, cache, written, got, facts, computed, alog>>

\* a batch or a course is deleted
entityDeleted(e) ==
  /\ e \in resolves
  /\ resolves' = resolves \ {e}
  /\ UNCHANGED <<notCache, clock, cache, written, got, facts, computed, alog>>

AnalyticsNext ==
  \/ \E t \in TimeRanges, stored \in BOOLEAN : getSystemAnalytics(t, stored)
  \/ \E kind \in Scoped, stored \in BOOLEAN : getScopedAnalytics(kind, stored)
  \/ \E k \in CacheKeys \ {OtherKey} : invalidate(k)
  \/ cacheTtlMonitor
  \/ ClockTick
  \/ dataChanges
  \/ \E e \in Entities : entityCreated(e)
  \/ \E e \in Entities : entityDeleted(e)

AnalyticsInit ==
  /\ now = 0
  /\ conc = 1
  /\ TokenIdle
  /\ AuthIdle
  /\ ProgIdle
  /\ CollIdle
  /\ CacheIdle
  /\ LockIdle
  /\ DashIdle
  /\ CookieIdle
  /\ CancelIdle
  /\ ClientIdle

SpecAnalytics == AnalyticsInit /\ [][AnalyticsNext]_vars

\* getSystemAnalytics alone, with what changes around it
SystemAnalyticsNext ==
  \/ \E t \in TimeRanges, stored \in BOOLEAN : getSystemAnalytics(t, stored)
  \/ \E t \in TimeRanges : invalidate(SystemKey(t))
  \/ cacheTtlMonitor
  \/ ClockTick
  \/ dataChanges

SystemAnalyticsInit ==
  /\ now = 0
  /\ conc = 1
  /\ TokenIdle
  /\ AuthIdle
  /\ ProgIdle
  /\ CollIdle
  /\ CacheIdle
  /\ LockIdle
  /\ DashIdle
  /\ CookieIdle
  /\ CancelIdle
  /\ ClientIdle

SpecSystemAnalytics == SystemAnalyticsInit /\ [][SystemAnalyticsNext]_vars

\* k days pass, the first of them the day the zone's clocks are set forward
NextDayClocksForward(k) ==
  /\ day < MaxDay
  /\ shortDay = Missing
  /\ day' = day + k
  /\ shortDay' = day
  /\ calcLog' = NoCalc
  /\ UNCHANGED <<notProg, prog, pcall, presult, pargs>>

\* calculate calls over the days of a server whose time zone sets its clocks
\* forward
StreakNext ==
  \/ \E materials \in SUBSET Materials, assignments \in SUBSET Assignments :
       calculateForStudent(TRUE, materials, {}, assignments, assignments)
  \/ calculateStudentProgress
  \/ \E k \in DaySteps : NextDay(k)
  \/ \E k \in DaySteps : NextDayClocksForward(k)

StreakInit ==
  /\ now = 0
  /\ conc = 1
  /\ TokenIdle
  /\ AuthIdle
  /\ ProgIdle
  /\ CollIdle
  /\ CacheIdle
  /\ LockIdle
  /\ DashIdle
  /\ CookieIdle
  /\ CancelIdle
  /\ ClientIdle

SpecStreak == StreakInit /\ [][StreakNext]_vars

\* ------------------------------------------------------ account lockout ---
\* the failed attempts after which incrementLoginAttempts locks the account
MaxAttempts == 5
\* the 30 minutes of the lock, in ticks of 900 s
LockTicks == 2
\* the last tick of the clock of the login handlers
MaxLoginTime == 3
\* the failed attempts the login handlers are followed for
MaxFailed == 7

\* isLocked(): this.lockUntil && this.lockUntil > Date.now()
isLocked(u) == IsSet(u.lockUntil) /\ u.lockUntil > now

\* incrementLoginAttempts() on the loaded document u
incrementLoginAttempts(u) ==
  LET counted == IF IsSet(u.lockUntil) /\ u.lockUntil < now
                 THEN [loginAttempts |-> 1, lockUntil |-> Missing]
                 ELSE [u EXCEPT !.loginAttempts = @ + 1]
  IN IF counted.loginAttempts >= MaxAttempts
     THEN [counted EXCEPT !.lockUntil = now + LockTicks]
     ELSE counted

\* resetLoginAttempts() on the loaded document u
resetLoginAttempts(u) == [u EXCEPT !.loginAttempts = 0, !.lockUntil = Missing]

\* user.save(): the paths whose value differs from the loaded one are written,
\* with no condition on what is stored; the other paths keep the stored value
saveUser(loaded, modified) ==
  [f \in {"loginAttempts", "lockUntil"} |->
     IF modified[f] # loaded[f] THEN modified[f] ELSE userDoc[f]]

\* login, up to the lock check: User.findOne, then 423 for a locked account
loginFindOne(p) ==
  /\ login[p].pc = "idle"
  /\ failures < MaxFailed
  /\ login' = [login EXCEPT ![p] =
                 IF isLocked(userDoc)
                 THEN [pc |-> "responded", status |-> 423, tokens |-> FALSE]
                 ELSE [pc |-> "found", loaded |-> userDoc]]
  /\ UNCHANGED <<notLock, userDoc, failures, jobRun>>

\* login, after comparePassword: a mismatch counts the attempt, saves and answers
\* 401; a match resets the counter, saves, issues the token pair and answers 200
loginSave(p, isPasswordValid) ==
  /\ login[p].pc = "found"
  /\ LET loaded == login[p].loaded
     IN IF isPasswordValid
        THEN /\ userDoc' = saveUser(loaded, resetLoginAttempts(loaded))
             /\ failures' = 0
             /\ login' = [login EXCEPT ![p] =
                            [pc |-> "responded", status |-> 200, tokens |-> TRUE]]
        ELSE /\ userDoc' = saveUser(loaded, incrementLoginAttempts(loaded))
             /\ failures' = failures + 1
             /\ login' = [login EXCEPT ![p] =
                            [pc |-> "responded", status |-> 401, tokens |-> FALSE]]
  /\ UNCHANGED <<notLock, jobRun>>

\* the response has been sent
loginEnd(p) ==
  /\ login[p].pc = "responded"
  /\ login' = [login EXCEPT ![p] = Waiting]
  /\ UNCHANGED <<notLock, userDoc, failures, jobRun>>

\* 900 s pass; a lock window that ends starts a new unlocked period
LockTick ==
  /\ now < MaxLoginTime
  /\ now' = now + 1
  /\ failures' = IF isLocked(userDoc) /\ ~(userDoc.lockUntil > now') THEN 0 ELSE failures
  /\ UNCHANGED <<tokenState, authState, notTokenAuthLock, userDoc, login, jobRun>>

\* logins of one account, two of them in flight at a time
LoginNext ==
  \/ \E p \in Procs : loginFindOne(p)
  \/ \E p \in Procs, isPasswordValid \in BOOLEAN : loginSave(p, isPasswordValid)
  \/ \E p \in Procs : loginEnd(p)
  \/ LockTick

LoginInit ==
  /\ now = 0
  /\ conc = Cardinality(Procs)
  /\ TokenIdle
  /\ AuthIdle
  /\ ProgIdle
  /\ CollIdle
  /\ CacheIdle
  /\ LockIdle
  /\ DashIdle
  /\ CookieIdle
  /\ CancelIdle
  /\ ClientIdle

SpecLogin == LoginInit /\ [][LoginNext]_vars

\* the cleanup job next to what fills the three collections: logins, the token
\* pairs they issue, logouts. The three updates of the job touch different
\* fields, so the run follows one of the three at a time: failed logins on an
\* account without tokens, token pairs and logouts on accounts without failures
NoLoginYet ==
  /\ userDoc = NoLockout
  /\ failures = 0
  /\ \A p \in Procs : login[p].pc = "idle"
NoTokenYet == started = 0
NoLogoutYet == accessMinted = {}

CleanupNext ==
  \/ \E p \in Procs : NoTokenYet /\ NoLogoutYet /\ loginFindOne(p)
  \/ \E p \in Procs, isPasswordValid \in BOOLEAN : loginSave(p, isPasswordValid)
  \/ \E p \in Procs : loginEnd(p)
  \/ \E p \in Procs, d \in Devices :
       NoLoginYet /\ NoLogoutYet /\ generateTokenPair(p, d)
  \/ \E p \in Procs : storeRefreshTokenFind(p)
  \/ \E p \in Procs : storeRefreshTokenSave(p)
  \/ NoLoginYet /\ NoTokenYet /\ signAccessToken
  \/ \E t \in accessMinted : blacklistAccessToken(t, "logout")
  \/ cleanupTokens
  \/ LockTick

CleanupInit ==
  /\ now = 0
  /\ conc = 1
  /\ TokenIdle
  /\ AuthIdle
  /\ ProgIdle
  /\ CollIdle
  /\ CacheIdle
  /\ LockIdle
  /\ DashIdle
  /\ CookieIdle
  /\ CancelIdle
  /\ ClientIdle

SpecCleanup == CleanupInit /\ [][CleanupNext]_vars

\* ------------------------------------------ the instructor's dashboard ---
\* the enrollments of the batch
MaxStudents == 4
\* topPerformers: slice(0, 5), and needAttention: slice(0, 10), scaled to the
\* batches of the model
TopPerformers == 1
NeedAttention == 2

\* overallProgress and isAtRisk of a stored Progress record: a record without
\* risk factors has attendance >= 70, material >= 60 and assignment >= 50, so
\* its overallProgress is at least 58
ProgressRows ==
  {[overallProgress |-> 20, isAtRisk |-> TRUE],
   [overallProgress |-> 60, isAtRisk |-> TRUE],
   [overallProgress |-> 60, isAtRisk |-> FALSE],
   [overallProgress |-> 90, isAtRisk |-> TRUE],
   [overallProgress |-> 90, isAtRisk |-> FALSE]}

\* an enrollment of the batch is stored, with the Progress record of its student
enrollmentStored(status, row) ==
  /\ Len(roster) < MaxStudents
  /\ roster' = Append(roster, [studentId |-> Len(roster) + 1, enrollmentStatus |-> status,
                               progress |-> row.overallProgress, isAtRisk |-> row.isAtRisk])
  /\ dashboard' = NoDashboard
  /\ UNCHANGED notDash

IsActiveEnrollment(e) == e.enrollmentStatus = "active"
IsAtRisk(s) == s.isAtRisk

\* studentProgress.sort((a, b) => b.progress - a.progress): stable, descending
InsertByProgress(r, s) ==
  LET k == Cardinality({i \in 1..Len(s) : s[i].progress >= r.progress})
  IN SubSeq(s, 1, k) \o <<r>> \o SubSeq(s, k + 1, Len(s))

RECURSIVE SortByProgress(_)
SortByProgress(s) ==
  IF s = <<>> THEN <<>>
  ELSE InsertByProgress(s[Len(s)], SortByProgress(SubSeq(s, 1, Len(s) - 1)))

\* Array.prototype.slice(0, n)
Slice(s, n) == SubSeq(s, 1, IF Len(s) < n THEN Len(s) ELSE n)

\* getInstructorBatchDashboard for the batch's instructor: the students of the
\* active enrollments, sorted, and the lists cut from them
getInstructorBatchDashboard ==
  LET found == SelectSeq(roster, IsActiveEnrollment)
      studentProgress == SortByProgress(found)
  IN /\ dashboard' =
          [returned |-> TRUE,
           totalStudents |-> Len(found),
           atRiskCount |-> Len(SelectSeq(found, IsAtRisk)),
           studentProgress |-> studentProgress,
           topPerformers |-> Slice(studentProgress, TopPerformers),
           needAttention |-> Slice(SelectSeq(studentProgress, IsAtRisk), NeedAttention)]
     /\ UNCHANGED <<notDash, roster>>

DashboardNext ==
  \/ \E status \in {"active", "pending"}, row \in ProgressRows : enrollmentStored(status, row)
  \/ getInstructorBatchDashboard

DashboardInit ==
  /\ now = 0
  /\ conc = 1
  /\ TokenIdle
  /\ AuthIdle
  /\ ProgIdle
  /\ CollIdle
  /\ CacheIdle
  /\ LockIdle
  /\ DashIdle
  /\ CookieIdle
  /\ CancelIdle
  /\ ClientIdle

SpecDashboard == DashboardInit /\ [][DashboardNext]_vars

\* --------------------------------------------- the risk rules at a save ---
\* a count and its total
Counted == {ct \in (0..MaxRiskTotal) \X (0..MaxRiskTotal) : ct[1] <= ct[2]}

\* Progress documents about to be saved: the counts a handler has set, with or
\* without an earlier activity
RiskRecords ==
  {[newProgress EXCEPT !.completedMaterials = m[1], !.totalMaterials = m[2],
                       !.attendedSessions = a[1], !.totalSessions = a[2],
                       !.submittedAssignments = g[1], !.totalAssignments = g[2],
                       !.lastActive = l] :
     m \in Counted, a \in Counted, g \in Counted, l \in {Missing, 0}}

\* await progress.save(): the pre('save') hook, then the write
progressSave ==
  /\ prog.exists
  /\ prog' = preSave(prog)
  /\ UNCHANGED <<notProg, day, pcall, presult, pargs, calcLog, shortDay>>

RiskNext ==
  \/ progressSave
  \/ \E k \in DaySteps : NextDay(k)

RiskInit ==
  /\ now = 0
  /\ conc = 1
  /\ TokenIdle
  /\ AuthIdle
  /\ day = 0
  /\ prog \in RiskRecords
  /\ pcall = "idle"
  /\ presult = "none"
  /\ pargs = NoArgs
  /\ calcLog = NoCalc
  /\ shortDay = Missing
  /\ CollIdle
  /\ CacheIdle
  /\ LockIdle
  /\ DashIdle
  /\ CookieIdle
  /\ CancelIdle
  /\ ClientIdle

SpecRisk == RiskInit /\ [][RiskNext]_vars

\* ------------------------------------------------ logout from all devices ---
\* TokenBlacklist.create({token, expiresAt, reason}): what the call comes to
BlacklistResult(t, reason) ==
  IF reason \notin ReasonEnum THEN "ValidationError"
  ELSE IF \E e \in blacklist : e.token = Sha256(t) THEN "DuplicateKey"
  ELSE "true"

\* logoutAll behind protect: blacklistAccessToken(token, 'logout_all'), then
\* revokeRefreshToken(user._id) up to its save; a throw of the first call is
\* answered with status 500 by the catch
logoutAll(p, t) ==
  LET created == BlacklistResult(t, "logout_all")
  IN /\ Free(p)
     /\ verifyAccessToken(t)
     /\ ~isAccessTokenBlacklisted(t)
     /\ blResult' = created
     /\ IF created = "true"
          THEN /\ blacklist' = blacklist \cup
                    {[token |-> Sha256(t), expiresAt |-> AccessExp(t),
                      reason |-> "logout_all", createdAt |-> now]}
               /\ Begin(p, [revokeCall(NoTok, "none") EXCEPT !.op = "logoutAll"])
          ELSE /\ UNCHANGED blacklist
               /\ Begin(p, Done([Idle EXCEPT !.op = "logoutAll"], "500"))
     /\ UNCHANGED <<notTokenAuth, now, conc, db, minted, rotatedOnce, accessMinted, req,
                    blDone>>

\* logins, logouts and logouts from all devices, one request at a time
LogoutAllNext ==
  \/ \E p \in Procs, d \in Devices : generateTokenPair(p, d)
  \/ \E p \in Procs : storeRefreshTokenFind(p)
  \/ \E p \in Procs : storeRefreshTokenSave(p)
  \/ signAccessToken
  \/ \E p \in Procs, T \in minted : revokeRefreshTokenFind(p, T, "none")
  \/ \E p \in Procs, t \in accessMinted : logoutAll(p, t)
  \/ \E p \in Procs : revokeRefreshTokenSave(p)
  \/ Tick

LogoutAllInit ==
  /\ now = 0
  /\ conc = 1
  /\ TokenIdle
  /\ AuthIdle
  /\ ProgIdle
  /\ CollIdle
  /\ CacheIdle
  /\ LockIdle
  /\ DashIdle
  /\ CookieIdle
  /\ CancelIdle
  /\ ClientIdle

SpecLogoutAll == LogoutAllInit /\ [][LogoutAllNext]_vars

\* ------------------------------------------------- POST /auth/refresh ---
\* res.cookie(name, undefined): the cookie holds String(undefined)
UndefinedCookie == <<"undefined", Missing>>

\* login (auth.controller.js:132-146): the refresh token of the pair that
\* generateTokenPair returned is set as the cookie
loginSetCookie(p) ==
  /\ calls[p].op = "issue"
  /\ calls[p].pc = "done"
  /\ calls[p].result = "ok"
  /\ cookie # calls[p].newTok
  /\ cookie' = calls[p].newTok
  /\ UNCHANGED <<notCookie, refreshResp>>

\* POST /auth/refresh arrives with the client's cookie: validateRefreshToken
refreshValidate(p) ==
  /\ cookie \in minted
  /\ validateRefreshTokenFind(p, cookie)

\* next(): refreshToken calls tokenService.rotateRefreshToken(req.refreshToken)
refreshRotate(p) ==
  /\ calls[p].op = "validate"
  /\ calls[p].pc = "done"
  /\ calls[p].result = "ok"
  /\ rotateRefreshTokenVerify(p, calls[p].tok)

\* the answer of the middleware or of the controller: 401 when the middleware
\* rejected the token or rotateRefreshToken threw; otherwise 200, with the
\* cookie set to newRefreshToken, a name that the object returned by
\* rotateRefreshToken ({accessToken, refreshToken, user}) does not have
refreshRespond(p) ==
  LET c == calls[p]
      ok == c.op = "rotate" /\ c.result = "ok"
  IN /\ c.pc = "done"
     /\ \/ c.op = "rotate"
        \/ c.op = "validate" /\ c.result # "ok"
     /\ refreshResp.call # started
     /\ refreshResp' = [status |-> IF ok THEN 200 ELSE 401, call |-> started,
                        issued |-> c.issued, newTok |-> c.newTok]
     /\ cookie' = IF ok THEN UndefinedCookie ELSE cookie
     /\ UNCHANGED notCookie

\* a client that logs in and then refreshes with the cookie it holds
RefreshNext ==
  \/ \E p \in Procs, d \in Devices : generateTokenPair(p, d)
  \/ \E p \in Procs : storeRefreshTokenFind(p)
  \/ \E p \in Procs : storeRefreshTokenSave(p)
  \/ \E p \in Procs : loginSetCookie(p)
  \/ \E p \in Procs : refreshValidate(p)
  \/ \E p \in Procs : validateRefreshTokenSave(p)
  \/ \E p \in Procs : refreshRotate(p)
  \/ \E p \in Procs : rotateRefreshTokenFind(p)
  \/ \E p \in Procs : rotateRefreshTokenPrune(p)
  \/ \E p \in Procs : rotateRefreshTokenSave(p)
  \/ \E p \in Procs : refreshRespond(p)
  \/ Tick

RefreshInit ==
  /\ now = 0
  /\ conc = 1
  /\ TokenIdle
  /\ AuthIdle
  /\ ProgIdle
  /\ CollIdle
  /\ CacheIdle
  /\ LockIdle
  /\ DashIdle
  /\ CookieIdle
  /\ CancelIdle
  /\ ClientIdle

SpecRefresh == RefreshInit /\ [][RefreshNext]_vars

\* ------------------------------------------------ cancelEnrollment ---
\* enrollmentSchema.pre("save"): remainingAmount and both statuses recomputed
\* from the amounts
preSaveEnrollment(e) ==
  LET paymentStatus == IF e.paidAmount = 0 THEN "pending"
                       ELSE IF e.paidAmount >= e.totalAmount THEN "paid"
                       ELSE IF e.paidAmount > 0 THEN "partially_paid"
                       ELSE e.paymentStatus
  IN [e EXCEPT !.remainingAmount = e.totalAmount - e.paidAmount,
               !.paymentStatus = paymentStatus,
               !.enrollmentStatus = IF paymentStatus \in {"paid", "partially_paid"}
                                      THEN "active" ELSE e.enrollmentStatus]

\* document.save(): the hook runs, then the paths that differ from the loaded
\* copy are written
saveEnrollment(loaded, modified) ==
  LET saved == preSaveEnrollment(modified)
  IN [f \in DOMAIN enrollment |->
        IF saved[f] # loaded[f] THEN saved[f] ELSE enrollment[f]]

\* enrollInBatch: Enrollment.create for a course of the given fee
enrollmentCreate(fee) ==
  /\ ~enrollment.exists
  /\ enrollment' = preSaveEnrollment(
       [exists |-> TRUE, totalAmount |-> fee, paidAmount |-> 0, remainingAmount |-> fee,
        enrollmentStatus |-> "pending", paymentStatus |-> "pending"])
  /\ UNCHANGED <<notCancel, batchDoc, cancel>>

\* paymentCallback of a completed payment of the given amount: the amounts,
\* the statuses, the batch count and enrollment.save()
paymentCallbackSave(amount) ==
  LET paid == enrollment.paidAmount + amount
  IN /\ enrollment.exists
     /\ paid <= MaxFee
     /\ enrollment' = saveEnrollment(enrollment,
          [enrollment EXCEPT !.paidAmount = paid,
             !.paymentStatus = IF paid >= enrollment.totalAmount
                                 THEN "paid" ELSE "partially_paid",
             !.enrollmentStatus = "active"])
     /\ batchDoc' = [batchDoc EXCEPT !.currentStudents = @ + 1]
     /\ UNCHANGED <<notCancel, cancel>>

Answer(status, message) == [pc |-> "responded", status |-> status, message |-> message]

\* cancelEnrollment up to the checks: Enrollment.findById, the authorization
\* of the caller, Batch.findById and its start date
cancelEnrollmentFind(p, authorized) ==
  /\ cancel[p].pc = "idle"
  /\ cancel' = [cancel EXCEPT ![p] =
       IF ~enrollment.exists THEN Answer(404, "Enrollment not found")
       ELSE IF ~authorized THEN Answer(403, "Not authorized to cancel this enrollment")
       ELSE IF batchDoc.startDate <= now
         THEN Answer(400, "Cannot cancel enrollment after batch has started")
       ELSE [pc |-> "save", loaded |-> enrollment, batch |-> batchDoc]]
  /\ UNCHANGED <<notCancel, enrollment, batchDoc>>

\* both statuses set to "cancelled", enrollment.save(), the batch count, the
\* answer
cancelEnrollmentSave(p) ==
  LET c == cancel[p]
  IN /\ c.pc = "save"
     /\ enrollment' = saveEnrollment(c.loaded,
          [c.loaded EXCEPT !.enrollmentStatus = "cancelled",
                           !.paymentStatus = "cancelled"])
     /\ batchDoc' = [batchDoc EXCEPT
          !.currentStudents = MaxOf({0, c.batch.currentStudents - 1})]
     /\ cancel' = [cancel EXCEPT ![p] = Answer(200, "Enrollment cancelled successfully")]
     /\ UNCHANGED notCancel

\* the response has been sent; the slot takes the next request
cancelEnrollmentEnd(p) ==
  /\ cancel[p].pc = "responded"
  /\ cancel' = [cancel EXCEPT ![p] = Waiting]
  /\ UNCHANGED <<notCancel, enrollment, batchDoc>>

CancelNext ==
  \/ \E fee \in 1..MaxFee : enrollmentCreate(fee)
  \/ \E amount \in 1..MaxFee : paymentCallbackSave(amount)
  \/ \E p \in Procs, authorized \in BOOLEAN : cancelEnrollmentFind(p, authorized)
  \/ \E p \in Procs : cancelEnrollmentSave(p)
  \/ \E p \in Procs : cancelEnrollmentEnd(p)
  \/ Tick

CancelInit ==
  /\ now = 0
  /\ conc = Cardinality(Procs)
  /\ TokenIdle
  /\ AuthIdle
  /\ ProgIdle
  /\ CollIdle
  /\ CacheIdle
  /\ LockIdle
  /\ DashIdle
  /\ CookieIdle
  /\ CancelIdle
  /\ ClientIdle

SpecCancel == CancelInit /\ [][CancelNext]_vars

\* ------------------------------------------------------- AuthClient ---
\* what fetch gives request: a response that is not 401 TOKEN_EXPIRED, the
\* 401 TOKEN_EXPIRED response, or a rejection
FetchResults == {"response", "expired", "rejected"}
\* what fetch gives handleTokenRefresh: response.ok, a response that is not
\* ok, or a rejection
RefreshResults == {"ok", "notOk", "rejected"}

InQueue(r) == \E i \in 1..Len(failedQueue) : failedQueue[i] = r

\* processQueue(error) seen from the calls: with an error every queued call
\* rejects; without, every queued call goes on to this.request and its fetch
processQueue(calls_, error) ==
  [r \in Callers |->
     IF ~InQueue(r) THEN calls_[r]
     ELSE IF error THEN [pc |-> "settled", frames |-> 0, outcome |-> "rejected"]
     ELSE [calls_[r] EXCEPT !.pc = "fetch"]]

\* request returns the response or throws to its caller
Settle(r, outcome) ==
  [pending EXCEPT ![r] = [pc |-> "settled", frames |-> 0, outcome |-> outcome]]

\* AuthClient.request(url, options) is called: fetch is issued
request(r) ==
  /\ pending[r].pc = "idle"
  /\ pending' = [pending EXCEPT ![r].pc = "fetch"]
  /\ UNCHANGED <<notClient, isRefreshing, failedQueue, expiredAnswers>>

\* the fetch of request settles. 401 TOKEN_EXPIRED: handleTokenRefresh queues
\* the call when isRefreshing, otherwise sets isRefreshing and fetches
\* /auth/refresh. Anything else returns or throws; a handleTokenRefresh frame
\* that awaited this request as its retry then runs processQueue and its
\* finally block
requestFetched(r, result) ==
  LET c == pending[r]
      unwinds == c.frames > 0
  IN /\ c.pc = "fetch"
     /\ result = "expired" => expiredAnswers < MaxExpired
     /\ expiredAnswers' = IF result = "expired" THEN expiredAnswers + 1 ELSE expiredAnswers
     /\ IF result = "expired"
          THEN IF isRefreshing
                 THEN /\ failedQueue' = Append(failedQueue, r)
                      /\ pending' = [pending EXCEPT ![r].pc = "queued"]
                      /\ UNCHANGED isRefreshing
                 ELSE /\ isRefreshing' = TRUE
                      /\ pending' = [pending EXCEPT ![r].pc = "refresh"]
                      /\ UNCHANGED failedQueue
          ELSE IF unwinds
                 THEN /\ pending' = [processQueue(pending, result = "rejected") EXCEPT ![r] =
                           [pc |-> "settled", frames |-> 0, outcome |-> result]]
                      /\ failedQueue' = <<>>
                      /\ isRefreshing' = FALSE
                 ELSE /\ pending' = Settle(r, result)
                      /\ UNCHANGED <<isRefreshing, failedQueue>>
     /\ UNCHANGED notClient

\* the fetch of /auth/refresh settles. ok: the access token is replaced and
\* the original request is retried through this.request, with isRefreshing
\* still set. Otherwise: processQueue(error), the error is thrown and finally
\* clears isRefreshing
handleTokenRefreshFetched(r, result) ==
  LET c == pending[r]
  IN /\ c.pc = "refresh"
     /\ IF result = "ok"
          THEN /\ pending' = [pending EXCEPT ![r] =
                    [pc |-> "fetch", frames |-> c.frames + 1, outcome |-> "none"]]
               /\ UNCHANGED <<isRefreshing, failedQueue>>
          ELSE /\ pending' = [processQueue(pending, TRUE) EXCEPT ![r] =
                    [pc |-> "settled", frames |-> 0, outcome |-> "rejected"]]
               /\ failedQueue' = <<>>
               /\ isRefreshing' = FALSE
     /\ UNCHANGED <<notClient, expiredAnswers>>

\* the caller has its response or its error and may call again
requestReturned(r) ==
  /\ pending[r].pc = "settled"
  /\ pending' = [pending EXCEPT ![r] = NoCall]
  /\ UNCHANGED <<notClient, isRefreshing, failedQueue, expiredAnswers>>

ClientNext ==
  \/ \E r \in Callers : request(r)
  \/ \E r \in Callers, result \in FetchResults : requestFetched(r, result)
  \/ \E r \in Callers, result \in RefreshResults : handleTokenRefreshFetched(r, result)
  \/ \E r \in Callers : requestReturned(r)

ClientInit ==
  /\ now = 0
  /\ conc = Cardinality(Procs)
  /\ TokenIdle
  /\ AuthIdle
  /\ ProgIdle
  /\ CollIdle
  /\ CacheIdle
  /\ LockIdle
  /\ DashIdle
  /\ CookieIdle
  /\ CancelIdle
  /\ ClientIdle

\* every fetch settles: the server answers or the network fails
ClientFairness ==
  /\ \A r \in Callers : WF_vars(\E result \in FetchResults : requestFetched(r, result))
  /\ \A r \in Callers : WF_vars(\E result \in RefreshResults : handleTokenRefreshFetched(r, result))

SpecClient == ClientInit /\ [][ClientNext]_vars /\ ClientFairness

\* ======================================================= token claims ===
ActiveTokens(rts) == {rts[i].token : i \in {j \in 1..Len(rts) : rts[j].isActive}}

Count(s, r) == Cardinality({i \in 1..Len(s) : s[i] = r})
SameBag(s, t) ==
  /\ Len(s) = Len(t)
  /\ \A i \in 1..Len(s) : Count(s, s[i]) = Count(t, s[i])

C2_RotationPostcondition ==
  \A p \in Procs :
    LET c == calls[p] IN
    c.op = "rotate" /\ c.pc = "done" /\ c.issued =>
      /\ c.result = "ok"
      /\ \E i \in 1..Len(db.rts) :
            /\ db.rts[i].token = c.tok
            /\ ~db.rts[i].isActive
            /\ db.rts[i].revokedReason = "rotated"
      /\ \E i \in 1..Len(db.rts) :
            /\ db.rts[i].token = c.newTok
            /\ db.rts[i].isActive
            /\ db.rts[i].deviceId = c.dev

\* C4: two rotateRefresh calls that overlap, present the same active refresh token
\* and both pass the lookup both succeed (the double issue of the race).
C4_RacingRotationsBothSucceed ==
  \A p, q \in Procs :
    LET c == calls[p]
        e == calls[q]
    IN (/\ p # q
        /\ c.op = "rotate" /\ e.op = "rotate" /\ c.tok = e.tok
        /\ c.issued /\ e.issued
        /\ c.pc = "done" /\ e.pc = "done")
       => c.result = "ok" /\ e.result = "ok"

\* the records a revoke call selects in the stored list
Selected(rts, c) ==
  CASE c.mode = "token" ->
         {FirstIndex({i \in 1..Len(rts) : rts[i].token = c.tok})} \ {0}
    [] c.mode = "device" ->
         {i \in 1..Len(rts) : rts[i].deviceId = c.dev /\ rts[i].isActive}
    [] OTHER -> {i \in 1..Len(rts) : rts[i].isActive}

\* C5: a revoke call that returns leaves the selected records inactive, every other
\* record as it was, and returns the number of records it turned from active to
\* inactive.
C5_RevokeDeactivatesSelected ==
  [][\A p \in Procs :
       revokeRefreshTokenSave(p) /\ calls'[p].result = "ok" =>
         LET c == calls[p]
             S == Selected(db.rts, c)
         IN /\ Len(db'.rts) = Len(db.rts)
            /\ \A i \in 1..Len(db.rts) :
                 IF i \in S THEN ~db'.rts[i].isActive
                 ELSE db'.rts[i] = db.rts[i]
            /\ c.count = Cardinality({i \in 1..Len(db.rts) :
                            db.rts[i].isActive /\ ~db'.rts[i].isActive})]_vars

\* C7: the stored list of refresh-token records never holds more than maxTokens
\* records.
C7_AtMostMaxTokens == Len(db.rts) <= maxTokens

\* C8, restated for what the code does: the store step of issueTokenPair, on reading a list of at least
\* maxTokens records (active or not), writes that list back without one record of
\* smallest lastUsedAt among all its records and with the new record appended; on
\* reading a shorter list it only appends, and no stored record is removed.
C8_EvictsOldestOfAllRecords ==
  [][\A p \in Procs :
       /\ storeRefreshTokenFind(p) =>
           LET read == Hydrate(db).rts
               w == calls'[p].sw
               n == Len(w.arr)
           IN /\ n >= 1
              /\ w.arr[n] = refreshTokenDoc(calls[p].newTok, calls[p].dev, now)
              /\ IF Len(read) >= maxTokens
                 THEN /\ w.kind = "setArray"
                      /\ \E i \in 1..Len(read) :
                           /\ \A j \in 1..Len(read) :
                                read[i].lastUsedAt <= read[j].lastUsedAt
                           /\ SameBag(SubSeq(w.arr, 1, n - 1), RemoveAt(read, i))
                 ELSE w.kind = "push" /\ n = 1
       /\ storeRefreshTokenSave(p) /\ calls'[p].result # "VersionError" =>
           IF calls[p].sw.kind = "push"
           THEN db'.rts = db.rts \o calls[p].sw.arr
           ELSE db'.rts = calls[p].sw.arr]_vars

\* C8 witness: a login has completed whose store step evicted a record
C8_Witness ==
  \E p \in Procs :
    /\ calls[p].op = "issue" /\ calls[p].pc = "done"
    /\ calls[p].result = "ok" /\ calls[p].mode = "evict"
    /\ Len(db.rts) = maxTokens

\* C8, as the specification states it: with at least maxTokens active records the least recently used
\* active record is removed; with fewer active records no active record is removed.
C8_EvictsOnlyWhenActiveFull ==
  [][\A p \in Procs :
       storeRefreshTokenFind(p) =>
         LET read == Hydrate(db).rts
             active == {i \in 1..Len(read) : read[i].isActive}
             w == calls'[p].sw
             old == SubSeq(w.arr, 1, Len(w.arr) - 1)
             kept(i) == w.kind = "push" \/ Count(old, read[i]) >= Count(read, read[i])
         IN IF Cardinality(active) >= maxTokens
            THEN \E i \in active :
                   /\ \A j \in active : read[i].lastUsedAt <= read[j].lastUsedAt
                   /\ ~kept(i)
            ELSE \A i \in active : kept(i)]_vars
\* ======================================================== auth claims ===
\* C3: no request is treated as authenticated (req.user attached, next()
\* called) on a token that had a blacklist entry with expiresAt in the
\* future when the request arrived and still has one, whichever middleware
\* (protect or optionalAuth) handled it.
C3_BlacklistedTokenNeverAuthenticated ==
  ~(req.attached /\ req.blAtStart /\ isAccessTokenBlacklisted(req.token))

\* C6: once blacklistAccessToken(T, 'logout') has returned true,
\* isAccessTokenBlacklisted(T) is true while now is before the entry's
\* expiresAt and false once expiresAt has passed, whatever the TTL monitor
\* and the cleanup job have done in between.
C6_BlacklistedUntilExpiry ==
  \A t \in blDone :
    /\ now < AccessExp(t) => isAccessTokenBlacklisted(t)
    /\ now > AccessExp(t) => ~isAccessTokenBlacklisted(t)

\* an expired entry that no cleanup has removed yet
C6_Witness ==
  \E t \in blDone :
    /\ now > AccessExp(t)
    /\ \E e \in blacklist : e.token = Sha256(t)
    /\ ~isAccessTokenBlacklisted(t)

\* ==================================================== progress claims ===
\* C9: the stored record's overallProgress is 0.4 * materialCompletionPercentage
\* + 0.2 * attendancePercentage + 0.4 * assignmentCompletionPercentage and
\* lies in [0, 100], after every save of every sequence of handler calls.
C9_OverallIsWeightedSumInRange ==
  prog.exists =>
    /\ prog.overallProgress = 2 * prog.materialCompletionPercentage
                              + prog.attendancePercentage
                              + 2 * prog.assignmentCompletionPercentage
    /\ 0 <= prog.overallProgress
    /\ prog.overallProgress <= 100 * 5 * Scale

FactorNames(r) == {r.riskFactors[i].factor : i \in 1..Len(r.riskFactors)}

\* the factors the record's own percentages and lastActive call for
ExpectedFactors(r, today) ==
  {f \in {"low_attendance", "low_material_completion",
          "low_assignment_submission", "inactive_for_7_days"} :
     \/ f = "low_attendance" /\ r.attendancePercentage < 70 * Scale
     \/ f = "low_material_completion" /\ r.materialCompletionPercentage < 60 * Scale
     \/ f = "low_assignment_submission" /\ r.assignmentCompletionPercentage < 50 * Scale
     \/ f = "inactive_for_7_days" /\ (r.lastActive = Missing \/ today - r.lastActive > 7)}

\* C10: every save leaves isAtRisk true exactly when riskFactors is
\* non-empty, with riskFactors being the factors that the saved record's
\* percentages and lastActive call for at the time of the save.
C10_RiskRecomputedAtEverySave ==
  [][prog' # prog =>
       /\ prog'.isAtRisk <=> Len(prog'.riskFactors) > 0
       /\ FactorNames(prog') = ExpectedFactors(prog', day')]_vars

\* a save that clears the risk flag of a record that was at risk
C10_Witness ==
  /\ prog.exists
  /\ ~prog.isAtRisk
  /\ prog.riskFactors = <<>>
  /\ prog.lastActive # Missing
  /\ presult = "ok"

\* C11: a calculate call that completes right after a completed calculate call
\* of the same day that read the same materials, sessions, assignments and
\* submissions returns the same three percentages, the same overallProgress,
\* the same set of risk factors and the same currentStreak and longestStreak.
C11_CalculateTwiceSameResult ==
  [][calculateStudentProgress /\ calcLog.done /\ calcLog.args = pargs /\ calcLog.day = day
       => Returned(prog') = calcLog.returned]_vars

\* a repeated calculate call has completed on a record with a streak and
\* a non-zero percentage
C11_Witness ==
  /\ calcLog.done
  /\ calcLog.repeated
  /\ calcLog.returned.currentStreak >= 1
  /\ calcLog.returned.overallProgress > 0

\* C12: at every save each category's stored percentage is completed / total
\* * 100 when the category's total is positive and 0 when the total is 0.
C12_PercentageZeroWhenTotalZero ==
  prog.exists =>
    /\ prog.materialCompletionPercentage =
         IF prog.totalMaterials > 0
           THEN Percentage(prog.completedMaterials, prog.totalMaterials) ELSE 0
    /\ prog.attendancePercentage =
         IF prog.totalSessions > 0
           THEN Percentage(prog.attendedSessions, prog.totalSessions) ELSE 0
    /\ prog.assignmentCompletionPercentage =
         IF prog.totalAssignments > 0
           THEN Percentage(prog.submittedAssignments, prog.totalAssignments) ELSE 0

\* C13: the record a calculate call saves counts, in completedMaterials and
\* attendedSessions, the published materials stored as 'completed' and the
\* sessions stored as 'present' before the call.
C13_CalculateKeepsRecordedStatuses ==
  [][pcall = "idle" /\ pcall' = "updateStreak" /\ prog.exists =>
       /\ prog'.completedMaterials >=
            Cardinality({m \in pargs'.materials : prog.materialProgress[m] = "completed"})
       /\ prog'.attendedSessions >=
            Cardinality({x \in pargs'.sessions : prog.sessionAttendance[x] = "present"})]_vars

\* C14: a streak update leaves currentStreak as it was on the day of
\* lastActive, adds 1 to it one day later and sets it to 1 more than one
\* day later (and at the first activity); it leaves longestStreak the larger
\* of its previous value and the new currentStreak; longestStreak is never
\* below currentStreak.
C14_StreakFollowsCalendarDays ==
  /\ [](prog.exists => prog.longestStreak >= prog.currentStreak)
  /\ [][calculateStudentProgress =>
          LET daysDifference == day - prog.lastActive
              current == prog'.currentStreak
          IN /\ prog.lastActive = Missing => current = 1
             /\ prog.lastActive # Missing /\ daysDifference = 0 => current = prog.currentStreak
             /\ prog.lastActive # Missing /\ daysDifference = 1 =>
                  current = prog.currentStreak + 1
             /\ prog.lastActive # Missing /\ daysDifference > 1 => current = 1
             /\ prog'.longestStreak =
                  IF current > prog.longestStreak THEN current ELSE prog.longestStreak
             /\ prog'.lastActive = day]_vars

\* C15: the Progress collection holds at most one document per (student,
\* batch), also when two calculate calls have both found none: the unique
\* index rejects the second insert.
C15_OneProgressRecordPerPair ==
  \A b \in Batches :
    Cardinality({i \in 1..Len(progressDocs) : progressDocs[i].batch = b}) <= 1

\* the insert of a call that had found no record has been rejected
C15_Witness ==
  \E p \in Procs :
    /\ calc[p].pc = "E11000 duplicate key"
    /\ Cardinality({i \in 1..Len(progressDocs) : progressDocs[i].batch = calc[p].batch}) = 1

\* C16: an enrollInBatch request for a (student, batch) that has an active
\* enrollment is answered with an error (the 'Already enrolled' one when the
\* batch accepts the request) and leaves exactly one Enrollment of the pair;
\* the Enrollment collection holds at most one document per (student, batch),
\* also after concurrent requests.
C16_OneEnrollmentPerPair ==
  /\ \A b \in Batches : Cardinality(EnrollmentsOf(b)) <= 1
  /\ \A p \in Procs :
       enroll[p].pc = "responded" /\ enroll[p].hadActive =>
         /\ enroll[p].status >= 400
         /\ enroll[p].accepted => enroll[p].message = "Already enrolled in this batch"
         /\ Cardinality(EnrollmentsOf(enroll[p].batch)) = 1

\* a request for a pair with an active enrollment has been turned down, and
\* the insert of a request that raced with another has been rejected by the index
C16_Witness ==
  \E p, q \in Procs :
    /\ enroll[p].pc = "responded"
    /\ enroll[p].hadActive
    /\ enroll[p].accepted
    /\ enroll[p].status = 400
    /\ enroll[q].pc = "responded"
    /\ enroll[q].message = "E11000 duplicate key"

\* C17: get(k) returns the value of the latest set(k, v, ttl) that no
\* invalidation followed at every time before that set's expiresAt, and null
\* at every time from expiresAt on, expiresAt included; get of a key never
\* set returns null.
C17_GetUntilExpiresAt ==
  [][\A k \in CacheKeys :
       cacheGet(k) =>
         got'.value = IF written[k].stored /\ clock < written[k].expiresAt
                        THEN written[k].data ELSE Null]_vars

\* C18: a getSystemAnalytics call made after a call of the same timeRange
\* has computed, stored and returned its result, before the expiresAt of that
\* entry and with no invalidation in between, returns the same result without
\* computing the aggregation again.
C18_SecondCallServedFromCache ==
  [][\A t \in TimeRanges, stored \in BOOLEAN :
       /\ getSystemAnalytics(t, stored)
       /\ alog.done
       /\ alog.key = SystemKey(t)
       /\ alog.ok
       /\ ~alog.hit
       /\ clock < alog.expiresAt
       => /\ alog'.ok
          /\ alog'.hit
          /\ alog'.result = alog.result
          /\ computed' = computed]_vars

\* a call has been served from the entry an earlier call wrote, after the
\* data the aggregation reads had changed
C18_Witness ==
  /\ alog.done
  /\ alog.ok
  /\ alog.hit
  /\ alog.key \in {SystemKey(t) : t \in TimeRanges}
  /\ alog.result.facts < facts
  /\ alog.result.calculatedAt < clock
  /\ computed = 1

\* C19: a cache-miss call of getSystemAnalytics, getBatchAnalytics or
\* getCourseAnalytics whose cache.set fails still returns the analytics it
\* computed.
C19_CacheWriteFailureStillReturns ==
  [][/\ \A t \in TimeRanges :
          getSystemAnalytics(t, FALSE) /\ CacheGet(cache, SystemKey(t)) = Null
            => alog'.ok /\ alog'.result = Analytics
     /\ \A kind \in Scoped :
          /\ getScopedAnalytics(kind, FALSE)
          /\ CacheGet(cache, ScopedKey(kind)) = Null
          /\ Entity(kind) \in resolves
          => alog'.ok /\ alog'.result \in {Analytics, BatchAnalytics}]_vars

\* C20: getBatchAnalytics and getCourseAnalytics fail with NotFound whenever
\* the id does not resolve when they are called, whatever the cache holds.
C20_NotFoundWhateverTheCacheHolds ==
  [][\A kind \in Scoped, stored \in BOOLEAN :
       getScopedAnalytics(kind, stored) /\ Entity(kind) \notin resolves
         => ~alog'.ok /\ alog'.error = NotFound(kind)]_vars

\* ================================================ lockout and cleanup claims ===

\* C28: an account never receives more than 5 failed password attempts within
\* one unlocked period; once 5 attempts have failed since the last successful
\* login or lock expiry the account is locked, and a login answered while the
\* account is locked issues no tokens; also with logins in flight together.
C28_LockoutHolds ==
  /\ [](failures <= MaxAttempts)
  /\ [](failures >= MaxAttempts => isLocked(userDoc))
  /\ [][\A p \in Procs :
          (/\ login[p].pc # "responded"
           /\ login'[p].pc = "responded"
           /\ isLocked(userDoc))
            => ~login'[p].tokens]_vars

\* C21: one run of the cleanup job removes every refresh-token record and every
\* blacklist entry whose expiresAt lies before the run time, removes or alters
\* none whose expiresAt is later, resets the lockout (counter 0, lock cleared)
\* of a user whose lock window has elapsed and leaves a running lock as it is.
C21_RemovesExpiredTokens ==
  /\ \A i \in 1..Len(db.rts) :
       db.rts[i].expiresAt < now => \A j \in 1..Len(db'.rts) : db'.rts[j] # db.rts[i]
  /\ LET Later(r) == r.expiresAt > now
     IN SelectSeq(db'.rts, Later) = SelectSeq(db.rts, Later)
C21_RemovesExpiredEntries ==
  \A e \in blacklist :
    /\ e.expiresAt < now => e \notin blacklist'
    /\ e.expiresAt > now => e \in blacklist'
C21_ResetsElapsedLocks ==
  /\ IsSet(userDoc.lockUntil) /\ userDoc.lockUntil < now
       => userDoc'.loginAttempts = 0 /\ ~IsSet(userDoc'.lockUntil)
  /\ isLocked(userDoc) => userDoc' = userDoc
C21_CleanupRun ==
  [][cleanupTokens
       => C21_RemovesExpiredTokens /\ C21_RemovesExpiredEntries
            /\ C21_ResetsElapsedLocks]_vars

\* the elements a revoke call marks in the array rts: the first one holding the
\* presented token, the active ones of the device, or all the active ones
C22_Targets(c, rts) ==
  CASE c.mode = "token" ->
         LET i == FirstIndex({j \in 1..Len(rts) : rts[j].token = c.tok})
         IN IF i = 0 THEN {} ELSE {i}
    [] c.mode = "device" ->
         {i \in 1..Len(rts) : rts[i].deviceId = c.dev /\ rts[i].isActive}
    [] OTHER -> {i \in 1..Len(rts) : rts[i].isActive}

\* C22: with the cleanup run as the only thing that interleaves with a revoke
\* call, a revoke whose save succeeds marks exactly the targeted records among
\* those stored at the save: none of them stays active (the revocation is not
\* lost) and no other record is changed or created (rotation: see C2).
C22_CleanupKeepsRevocation ==
  [][\A p \in Procs :
       revokeRefreshTokenSave(p) /\ calls'[p].result = "ok"
         => db'.rts = [i \in 1..Len(db.rts) |->
                        IF i \in C22_Targets(calls[p], db.rts)
                        THEN ApplyPatch(db.rts[i], calls[p].w.patch, calls[p].w.at)
                        ELSE db.rts[i]]]_vars

\* ========================================================= calculate claims ===

\* C23: calculate fails with the not-enrolled error whenever the student has no
\* enrollment with status active in that batch, and then neither creates nor
\* modifies a Progress record: the call does nothing after the throw.
C23_NotEnrolledLeavesProgress ==
  [][\A p \in Procs :
       /\ \A b \in Batches :
            (/\ calculateEnrollmentFindOne(p, b)
             /\ \A i \in 1..Len(enrollments) :
                  ~(enrollments[i].batch = b /\ enrollments[i].enrollmentStatus = "active"))
              => calc'[p].pc = NotEnrolled /\ progressDocs' = progressDocs
       /\ calc[p].pc = NotEnrolled => calc'[p] \in {calc[p], Waiting}]_vars

\* a call has thrown for a batch in which the student's enrollment is pending,
\* while a Progress record of another batch is stored
C23_Witness ==
  \E p \in Procs :
    /\ calc[p].pc = NotEnrolled
    /\ \E i \in 1..Len(enrollments) :
         enrollments[i].batch = calc[p].batch /\ enrollments[i].enrollmentStatus = "pending"
    /\ progressDocs # <<>>

\* the elements of a list
C24_Elems(s) == {s[i] : i \in 1..Len(s)}

\* C24: the dashboard returns the students of all active enrollments sorted
\* descending by overall progress; the needs-attention list holds at-risk
\* students only, and whenever more students are at risk than the list holds,
\* the listed ones are the at-risk students with the lowest overall progress.
C24_NeedAttentionLowestFirst ==
  dashboard.returned =>
    LET active == {roster[i] : i \in {j \in 1..Len(roster) :
                                       roster[j].enrollmentStatus = "active"}}
        atRisk == {s \in active : s.isAtRisk}
        listed == C24_Elems(dashboard.needAttention)
        sorted == dashboard.studentProgress
    IN /\ C24_Elems(sorted) = active
       /\ Len(sorted) = Cardinality(active)
       /\ \A i, j \in 1..Len(sorted) : i < j => sorted[i].progress >= sorted[j].progress
       /\ listed \subseteq atRisk
       /\ Cardinality(atRisk) > NeedAttention =>
            /\ Cardinality(listed) = NeedAttention
            /\ \A s \in listed, t \in atRisk \ listed : s.progress <= t.progress

\* the rule set on the values of record r on day today: a factor with its
\* severity for each rule that applies
C25_Rules(r, today) ==
  LET att == r.attendancePercentage
      mat == r.materialCompletionPercentage
      asg == r.assignmentCompletionPercentage
      Severity(high) == IF high THEN "high" ELSE "medium"
  IN {[factor |-> "low_attendance", severity |-> Severity(att < 50 * Scale)] :
        x \in {y \in {1} : att < 70 * Scale}}
     \cup {[factor |-> "low_material_completion", severity |-> Severity(mat < 40 * Scale)] :
        x \in {y \in {1} : mat < 60 * Scale}}
     \cup {[factor |-> "low_assignment_submission", severity |-> Severity(asg < 30 * Scale)] :
        x \in {y \in {1} : asg < 50 * Scale}}
     \cup {[factor |-> "inactive_for_7_days", severity |-> "high"] :
        x \in {y \in {1} : r.lastActive = Missing \/ today - r.lastActive > 7}}

\* C25: the risk factors recorded at a save are exactly those of the rule set
\* on the saved values, each once and with the severity of its rule; a record
\* that was never active counts as inactive for more than 7 days.
C25_RiskFactorsFollowRules ==
  [][progressSave =>
       /\ C24_Elems(prog'.riskFactors) = C25_Rules(prog', day')
       /\ Len(prog'.riskFactors) = Cardinality(C25_Rules(prog', day'))]_vars

\* a saved record with all four factors: attendance and assignment medium,
\* material and inactivity high
C25_Witness ==
  /\ prog.exists
  /\ C24_Elems(prog.riskFactors) =
       {[factor |-> "low_attendance", severity |-> "medium"],
        [factor |-> "low_material_completion", severity |-> "high"],
        [factor |-> "low_assignment_submission", severity |-> "medium"],
        [factor |-> "inactive_for_7_days", severity |-> "high"]}
  /\ prog.attendancePercentage >= 50 * Scale
  /\ prog.assignmentCompletionPercentage >= 30 * Scale
  /\ prog.materialCompletionPercentage < 40 * Scale
  /\ prog.lastActive # Missing

\* ============================================================ session claims ===

\* C26: once a logout from all devices has been handled, every refresh-token
\* record of the user is inactive, so that no earlier refresh token can be
\* rotated.
C26_LogoutAllRevokesEveryToken ==
  [][\A p \in Procs :
       (/\ calls'[p].op = "logoutAll"
        /\ calls'[p].pc = "done"
        /\ calls[p] # calls'[p])
         => \A i \in 1..Len(db'.rts) : ~db'.rts[i].isActive]_vars

\* C27: a refresh that presented the cookie of a refresh token found active and
\* not expired is answered 200 and leaves the cookie holding the newly issued
\* refresh token, so that the next refresh can present it.
C27_CookieHoldsNewRefreshToken ==
  [][\A p \in Procs :
       refreshRespond(p) /\ calls[p].issued
         => /\ refreshResp'.status = 200
            /\ cookie' = calls[p].newTok]_vars

\* C29: when cancelEnrollment answers "Enrollment cancelled successfully", the
\* stored enrollment has enrollmentStatus "cancelled" and paymentStatus
\* "cancelled", whatever amount had been paid on it.
C29_CancelledBothStatuses ==
  [][\A p \in Procs :
       cancelEnrollmentSave(p)
         => /\ enrollment'.enrollmentStatus = "cancelled"
            /\ enrollment'.paymentStatus = "cancelled"]_vars

\* C30: every call of AuthClient.request eventually settles and isRefreshing
\* eventually returns to false, whatever the server answers, a 401
\* TOKEN_EXPIRED answer to the retry after a successful refresh included.
C30_EveryRequestSettles ==
  /\ \A r \in Callers : (pending[r].pc # "idle") ~> (pending[r].pc = "settled")
  /\ isRefreshing ~> ~isRefreshing

====
